---- MODULE Spec2Model ----
(***************************************************************************)
(* Ship-Design: the preliminary ship-design calculator of                  *)
(* ship_des_view_widget.py (class ShipDesViewWidget).                      *)
(*                                                                         *)
(* The widget's floating-point fields are carried as scaled integers:      *)
(*   U6  micro-units (value * 10^6): lengths in metres, ratios,            *)
(*       coefficients, speed in knots, RPM;                                *)
(*   U3  milli-units (value * 10^3): masses in tonnes, powers in BHP/kW,   *)
(*       volumes in m3, range in nautical miles, freeboard table in mm.    *)
(* Products and quotients are computed limb-wise so that no intermediate   *)
(* value leaves the 31-bit range of the model checker's integers.          *)
(***************************************************************************)
EXTENDS Integers, Sequences, FiniteSets, TLC

\* ------------------------------------------------------------------------
\* Fixed-point arithmetic standing for Python's float *, /, ** and sqrt
\* ------------------------------------------------------------------------
K3 == 10 ^ 3
U3 == 10 ^ 3
U6 == 10 ^ 6

Abs(x) == IF x < 0 THEN -x ELSE x
Sgn(x) == IF x < 0 THEN -1 ELSE 1
Min(a, b) == IF a < b THEN a ELSE b
Max(a, b) == IF a > b THEN a ELSE b

\* the sign of a product or quotient of a and b
SignOf(a, b) == IF (a < 0) = (b < 0) THEN 1 ELSE -1

\* the limbs of a and b in base 1000, multiplied out: << c0, .., c4 >> with
\* a * b = c0 + c1 * 10^3 + .. + c4 * 10^12, for a, b >= 0
Limbs(a, b) ==
  LET a0 == a % K3
      a1 == (a \div K3) % K3
      a2 == a \div U6
      b0 == b % K3
      b1 == (b \div K3) % K3
      b2 == b \div U6
  IN  << a0 * b0, a1 * b0 + a0 * b1, a2 * b0 + a1 * b1 + a0 * b2,
         a2 * b1 + a1 * b2, a2 * b2 >>

\* floor of the product with limbs c over 10^3, 10^6 and 10^9: the low limbs
\* are carried
Carry1(c) == ((c[5] * K3 + c[4]) * K3 + c[3]) * K3 + c[2] + c[1] \div K3
Carry2(c) == (c[5] * K3 + c[4]) * K3 + c[3] + (c[2] + c[1] \div K3) \div K3
Carry3(c) ==
  c[5] * K3 + c[4] + (c[3] + (c[2] + c[1] \div K3) \div K3) \div K3

\* floor(a*b / 10^6) for a, b >= 0
MulU(a, b) == Carry2(Limbs(a, b))

\* a*b/10^3, a*b/10^6 and a*b/10^9, truncated towards zero
Mul3(a, b) == SignOf(a, b) * Carry1(Limbs(Abs(a), Abs(b)))
Mul6(a, b) == SignOf(a, b) * Carry2(Limbs(Abs(a), Abs(b)))
Mul9(a, b) == SignOf(a, b) * Carry3(Limbs(Abs(a), Abs(b)))

RECURSIVE DivMore(_, _, _, _)

\* three more digits of a quotient: << floor(r * 1000 / b), the remainder >>
\* for 0 <= r < b <= 2*10^8
DivDigits(r, b) ==
  LET r1 == (r * 10) % b
      r2 == (r1 * 10) % b
  IN  << 100 * ((r * 10) \div b) + 10 * ((r1 * 10) \div b) + (r2 * 10) \div b,
         (r2 * 10) % b >>

\* floor(a * 10^n / b) for a >= 0, 0 < b <= 2*10^8 and n in {3, 6, 9}: the
\* integer part q, then three digits at a time from the remainder r
DivMore(q, r, b, n) ==
  IF n = 0 THEN q
  ELSE IF n = 3 THEN q * K3 + DivDigits(r, b)[1]
  ELSE DivMore(q * K3 + DivDigits(r, b)[1], DivDigits(r, b)[2], b, n - 3)
DivS(a, b, n) == DivMore(a \div b, a % b, b, n)

\* floor(a * 10^n / b) for a >= 0, b > 0 (operands above 2*10^8 lose their
\* low bits first)
DivU(a, b, n) ==
  DivS(IF b > 200000000 THEN a \div 16 ELSE a,
       IF b > 200000000 THEN b \div 16 ELSE b, n)

\* a/b scaled by 10^3, 10^6 and 10^9, truncated towards zero (b # 0)
Div3(a, b) == SignOf(a, b) * DivU(Abs(a), Abs(b), 3)
Div6(a, b) == SignOf(a, b) * DivU(Abs(a), Abs(b), 6)
Div9(a, b) == SignOf(a, b) * DivU(Abs(a), Abs(b), 9)

\* a * b / c for a, c in U3 and b in U6, truncated: where the product would
\* leave the range of the integers the quotient a / c is taken first, to
\* nine decimals
MulDiv(a, b, c) ==
  IF (Abs(a) \div U3) * (Abs(b) \div U6) < 2 * U6 THEN Div6(Mul6(a, b), c)
  ELSE SignOf(a, c) * (((Abs(a) \div Abs(c)) * b)
                       + Mul9(b, Div9(Abs(a) % Abs(c), Abs(c))))

\* 2^(i/16), i = 0..16, in U6
Exp2Tab ==
  << 1000000, 1044274, 1090508, 1138789, 1189207, 1241858, 1296840, 1354256,
     1414214, 1476826, 1542211, 1610490, 1681793, 1756252, 1834008, 1915207,
     2000000 >>

\* largest e with 2^e <= x, for x >= 1
ILog2(x) == CHOOSE e \in 0..30 : x \div (2 ^ e) = 1

\* ln(1 + u) for 0 <= u < 2^(1/16) - 1, by its series (U6)
Series4(u, u2, u3) == u - u2 \div 2 + u3 \div 3 - MulU(u3, u) \div 4
Series3(u, u2) == Series4(u, u2, MulU(u2, u))
Ln1p(u) == Series3(u, MulU(u, u))

\* log2 of the mantissa m in [1, 2) (U6): m = 2^(i/16) * (1 + u)
Log2I(m, i) ==
  i * 62500 + MulU(Ln1p(DivU(m, Exp2Tab[i + 1], 6) - U6), 1442695)
Log2M(m) == Log2I(m, Cardinality({k \in 2..16 : Exp2Tab[k] <= m}))

\* log2 of the integer x >= 1, in U6: x = 2^e * m
Log2(x) == ILog2(x) * U6 + Log2M(DivU(x, 2 ^ ILog2(x), 6))

\* e^z for 0 <= z < ln(2)/16, by its series (U6)
ExpSeries4(z, z2, z3) ==
  U6 + z + z2 \div 2 + z3 \div 6 + MulU(z3, z) \div 24
ExpSeries3(z, z2) == ExpSeries4(z, z2, MulU(z2, z))
ExpSeries(z) == ExpSeries3(z, MulU(z, z))

\* floor(2^y) for y in U6 (0 below 2^0, saturating at 2^30): y = n + i/16 + r
\* with r < 1/16
Exp2(y) ==
  IF y < 0 THEN 0
  ELSE IF y \div U6 >= 30 THEN 2 ^ 30
  ELSE MulU(MulU(Exp2Tab[(y % U6) \div 62500 + 1],
                 ExpSeries(MulU((y % U6) % 62500, 693147))),
            2 ^ (y \div U6))

\* x ** p for x > 0: x carries sx decimal digits (3 or 6), p is in U6, the
\* result carries so decimal digits (log2(10^3) and log2(10^6) shift the scale)
Pow(x, sx, p, so) ==
  LET lg(n) == IF n = 6 THEN 19931569 ELSE IF n = 3 THEN 9965784 ELSE 0
  IN  IF x <= 0 THEN 0
      ELSE Exp2(Mul6(p, Log2(x) - lg(sx)) + lg(so))

\* math.sqrt(x) and x ** (1/3) for x in U6 resp. U3, results in U6
Sqrt(x) == Pow(x, 6, 500000, 6)
Cbrt3(x) == Pow(x, 3, 333333, 6)

\* ------------------------------------------------------------------------
\* Tables of ShipDesViewWidget.__init__ and of ShipConfig / FuelConfig
\* ------------------------------------------------------------------------
NOT_CONVERGE == 2
SPEED_LOW == 3
SPEED_HIGH == 5
PITCH_LOW == 7
PITCH_HIGH == 11

\* _V1[1..7] (U6)
_V1 == << 500000, 550000, 600000, 650000, 700000, 750000, 800000 >>
\* _A6[1..8], _B6[1..7], _C6[1..6], _D6[1..5] (U6)
_A6 == << 246113, -457933, -171651, 435019, 36811, -57823, -36776, 85409 >>
_B6 == << 554578, -42039, -728475, 0, 108961, -59974, -127743 >>
_C6 == << 80774, 600352, 0, 0, 88494, 67628 >>
_D6 == << -286204, 0, 0, 0, -20047 >>
\* _X1[1..112] (U6)
_X1 ==
  << -775000, 210700, 87200, 90000, 11600, 88300, 8100, 63100,
     42900, -24900, -12400, 23600, -30100, 87700, -124300, -26900,
     -761200, 222300, 91100, 76800, 35400, 84200, 15100, 64400,
     65000, -18700, 29200, -24500, -44200, 112400, -134100, -600,
     -733600, 233900, 96400, 70100, 21000, 93900, 17700, 65600,
     106200, -27000, 64700, -77600, -53700, 115100, -77500, 114500,
     -683600, 276500, 99500, 85600, 49600, 127000, 17500, 95700,
     146300, -50200, 162900, -131300, -86300, 113300, 35500, 225500,
     -576000, 316100, 110800, 156300, 202000, 179000, 17000, 119300,
     170600, -69900, 357400, -303400, -94400, 83900, 171500, 200600,
     -329000, 356200, 113400, 444900, 355700, 127200, 6600, 141500,
     123800, -5100, 288200, -250800, -11500, -15600, 256900, 13800,
     -38400, 455000, 66100, 1012400, 298500, 93000, 11800, 508000,
     220300, -51400, 211000, 48600, 4600, -143300, 268000, 228300 >>

\* freeboard tables: _L2 in m, _F1 and _F2 in mm, elements 0..17 as 1..18
_L2 == << 30, 40, 60, 80, 100, 120, 140, 160, 180, 200,
          220, 240, 260, 280, 300, 320, 340, 360 >>
_F1 == << 250, 334, 573, 841, 1135, 1459, 1803, 2126, 2393, 2612,
          2792, 2946, 3072, 3176, 3262, 3331, 3382, 3425 >>
_F2 == << 250, 334, 573, 887, 1271, 1690, 2109, 2520, 2915, 3264,
          3586, 3880, 4152, 4397, 4630, 4844, 5055, 5260 >>
_E5 == 200000

\* ShipConfig.DATA in combo order (index Kstype): coefficients in U6,
\* Outfit_Slope in U3
ShipConfig ==
  << [ID |-> 1, Steel_K1 |-> 32000, Outfit_Intercept |-> 370000,
      Outfit_Slope |-> 1765000, Stability_Factor |-> 630000,
      Design_Type |-> "Deadweight", Profile_Factor |-> 1100000,
      Cargo_Density |-> 850000],
     [ID |-> 2, Steel_K1 |-> 32000, Outfit_Intercept |-> 320000,
      Outfit_Slope |-> 1765000, Stability_Factor |-> 570000,
      Design_Type |-> "Deadweight", Profile_Factor |-> 1150000,
      Cargo_Density |-> 1500000],
     [ID |-> 3, Steel_K1 |-> 34000, Outfit_Intercept |-> 410000,
      Outfit_Slope |-> 0, Stability_Factor |-> 620000,
      Design_Type |-> "Deadweight", Profile_Factor |-> 1300000,
      Cargo_Density |-> 600000],
     [ID |-> 4, Steel_K1 |-> 36000, Outfit_Intercept |-> 450000,
      Outfit_Slope |-> 0, Stability_Factor |-> 600000,
      Design_Type |-> "Volume", Profile_Factor |-> 1600000,
      Cargo_Density |-> 0],
     [ID |-> 5, Steel_K1 |-> 45000, Outfit_Intercept |-> 800000,
      Outfit_Slope |-> 0, Stability_Factor |-> 700000,
      Design_Type |-> "Volume", Profile_Factor |-> 2400000,
      Cargo_Density |-> 0],
     [ID |-> 6, Steel_K1 |-> 42000, Outfit_Intercept |-> 900000,
      Outfit_Slope |-> 0, Stability_Factor |-> 680000,
      Design_Type |-> "Volume", Profile_Factor |-> 2200000,
      Cargo_Density |-> 0] >>

\* FuelConfig.DATA in combo order (index Ketype): Efficiency, TankFactor and
\* VolFactor in U6, Density in kg/m3, Machinery in kg/kW
FuelConfig ==
  << [Density |-> 850, Efficiency |-> 500000, TankFactor |-> 1100000,
      VolFactor |-> 1020000, Machinery |-> 14, IsNuclear |-> FALSE],
     [Density |-> 850, Efficiency |-> 450000, TankFactor |-> 1100000,
      VolFactor |-> 1020000, Machinery |-> 11, IsNuclear |-> FALSE],
     [Density |-> 980, Efficiency |-> 330000, TankFactor |-> 1050000,
      VolFactor |-> 1020000, Machinery |-> 9, IsNuclear |-> FALSE],
     [Density |-> 0, Efficiency |-> 350000, TankFactor |-> 0,
      VolFactor |-> 0, Machinery |-> 20, IsNuclear |-> TRUE],
     [Density |-> 792, Efficiency |-> 450000, TankFactor |-> 1200000,
      VolFactor |-> 1150000, Machinery |-> 15, IsNuclear |-> FALSE],
     [Density |-> 71, Efficiency |-> 380000, TankFactor |-> 5000000,
      VolFactor |-> 3000000, Machinery |-> 13, IsNuclear |-> FALSE],
     [Density |-> 450, Efficiency |-> 480000, TankFactor |-> 1600000,
      VolFactor |-> 1900000, Machinery |-> 16, IsNuclear |-> FALSE],
     [Density |-> 71, Efficiency |-> 500000, TankFactor |-> 5000000,
      VolFactor |-> 3000000, Machinery |-> 18, IsNuclear |-> FALSE],
     [Density |-> 682, Efficiency |-> 420000, TankFactor |-> 1400000,
      VolFactor |-> 1400000, Machinery |-> 16, IsNuclear |-> FALSE],
     [Density |-> 2000, Efficiency |-> 920000, TankFactor |-> 1000000,
      VolFactor |-> 1000000, Machinery |-> 3, IsNuclear |-> FALSE] >>

\* ------------------------------------------------------------------------
\* The calculation stages.  Each takes the widget's attributes as a record s
\* and yields the record after the call; field ret holds the call's return
\* value.
\* ------------------------------------------------------------------------

\* _freeboard: F5 is built in mm (U3) and leaves in m (U6)
FreeboardShort(s, fa) ==
  IF ShipConfig[s.Kstype].ID # 1 /\ s.L1 < 100 * U6
  THEN fa + Mul6(Mul6(750000, 100 * U6 - s.L1), 350000 - _E5) \div U3
  ELSE fa
FreeboardBlock(C9, fb) ==
  IF C9 >= 680000 THEN Mul6(fb, Div6(C9 + 680000, 1360000)) ELSE fb
FreeboardDepth(s, fc) ==
  IF s.D >= s.L1 \div 15
  THEN (IF s.L1 <= 120 * U6
        THEN fc + Div6(Mul6(s.D - s.L1 \div 15, s.L1), 480000) \div U3
        ELSE fc + Mul6(s.D - s.L1 \div 15, 250 * U3))
  ELSE fc
\* FreeboardTable where a length outside the table takes the value of the
\* table's end
FreeboardTable_Clamped(L1, tab, l) ==
  IF L1 <= _L2[1] * U6 THEN tab[1] * U3
  ELSE IF L1 >= _L2[18] * U6 THEN tab[18] * U3
  ELSE tab[l + 1] * U3
       + Div3(Mul3((L1 - _L2[l + 1] * U6) \div U3,
                   (tab[l + 2] - tab[l + 1]) * U3),
              (_L2[l + 2] - _L2[l + 1]) * U3)
FreeboardTable(L1, tab, l) ==
  tab[l + 1] * U3
  + Div3(Mul3((L1 - _L2[l + 1] * U6) \div U3, (tab[l + 2] - tab[l + 1]) * U3),
         (_L2[l + 2] - _L2[l + 1]) * U3)
FreeboardFrom(s, fa) ==
  LET T_safe == IF s.T # 0 THEN s.T ELSE 1
      E9a == IF s.L1 <= 85 * U6
             THEN 350 * U3 + Mul6(s.L1 - 24 * U6, Div3(510 * U3, 61 * U3))
             ELSE IF s.L1 <= 122 * U6
                  THEN 860 * U3 + Mul6(s.L1 - 85 * U6, Div3(210 * U3, 37 * U3))
                  ELSE 1070 * U3
      E9 == Mul6(E9a, Pow(_E5, 6, IF s.Kstype = 1 THEN 1230000 ELSE 1300000, 6))
      E0 == Mul6(Mul6(s.L1 \div 3 + 10 * U6, 8337500), 750000 - _E5 \div 2) \div U3
  IN  [s EXCEPT
         !.F5 = FreeboardDepth(
                  s, FreeboardBlock(
                       s.C + Div6(Mul6(850000, s.D) - s.T, 10 * T_safe),
                       FreeboardShort(s, fa)))
                - E9 + E0,
         !.ret = TRUE]

\* the table value of row l with the corrections that follow it
FreeboardAt(s, l) ==
  FreeboardFrom(s, FreeboardTable(s.L1,
                                  IF ShipConfig[s.Kstype].ID = 1 THEN _F1
                                  ELSE _F2,
                                  l))

\* the row of the freeboard table that the loop of _freeboard stops at
FreeboardRow(L1) ==
  IF L1 <= _L2[1] * U6 THEN 0
  ELSE IF L1 < _L2[18] * U6
       THEN Max(1, Cardinality({i \in 1..17 : L1 > _L2[i] * U6})) - 1
       ELSE 16

_freeboard(s) == FreeboardAt(s, FreeboardRow(s.L1))

\* _stability
_stability(s) ==
  LET G3 == Mul6(ShipConfig[s.Kstype].Stability_Factor, s.D)
      C7 == Mul6(670000, s.C) + 320000
      C_safe == IF s.C # 0 THEN s.C ELSE 1
      T_safe == IF s.T # 0 THEN s.T ELSE 1
      G4 == Div6(Mul6(s.T, 5 * C7 - 2 * s.C), 6 * C7)
      C8 == Mul6(1100000, s.C) - 120000
      G5 == Div6(Mul6(C8, Mul6(s.B, s.B)), 12 * Mul6(T_safe, C_safe))
  IN  [s EXCEPT !.G6 = G4 + G5 - G3, !.ret = TRUE]

\* the regression polynomial of _resist in its variables Z2..Z5 (Z1 = 1)
ResistPoly(base_idx, Z2, Z3, Z4, Z5) ==
  LET X(i) == _X1[base_idx + i]
      m3(a, b, c) == Mul6(Mul6(a, b), c)
      R1 == X(1) + Mul6(X(2), Z2) + Mul6(X(3), Z3) + Mul6(X(4), Z4)
      R2 == Mul6(X(5), Z5) + m3(X(6), Z2, Z2) + m3(X(7), Z3, Z3) + m3(X(8), Z4, Z4)
      R3 == m3(X(9), Z5, Z5) + m3(X(10), Z2, Z3) + m3(X(11), Z2, Z4)
      R4 == m3(X(12), Z2, Z5) + m3(X(13), Z3, Z4) + m3(X(14), Z3, Z5)
      R5 == m3(X(15), Z4, Z5) + Mul6(m3(X(16), Z5, Z4), Z4)
  IN  Mul6(R1 + R2 + R3 + R4 + R5, 5163500) + 13103500

\* _resist: the regression of one resistance curve (U6)
_resist(s, base_idx, W0, X0) ==
  ResistPoly(base_idx,
             Div6(Div6(s.L1, W0) - 5296000, 1064000),
             Div6(10 * (Div6(s.B, s.T) - 3025000), 9050000),
             Div6(Mul6(1000 * U6, s.C - 725000), 75 * U6),
             Div6(X0 - 770000, 2770000))

\* the propeller polynomial of _power: Z4 + P5*(Y4 + P5*(X4 + P5*D6[1]))
PropPoly(Z4, Y4, X4, D, P5) == Z4 + Mul6(P5, Y4 + Mul6(P5, X4 + Mul6(P5, D)))

\* the Newton loop of _power on A9: << P5, m0, A9 >> at its exit
RECURSIVE Newton(_, _, _, _, _, _, _)
Newton(P5, m0, mm, Z4, Y4, X4, T3) ==
  LET A9 == PropPoly(Z4, Y4, X4, _D6[1], P5) - T3
      B9a == Y4 + Mul6(P5, 2 * X4 + 3 * Mul6(P5, _D6[1]))
      B9 == IF B9a = 0 THEN 1 ELSE B9a
  IN  IF m0 < mm /\ Abs(A9) > 10
      THEN Newton(P5 - Div6(A9, B9), m0 + 1, mm, Z4, Y4, X4, T3)
      ELSE << P5, m0, A9 >>

\* the interval of the speed table _V1 that the loop at lines 2783-2788
\* stops in
SpeedRow(V0) ==
  IF V0 < _V1[1] THEN 1
  ELSE IF V0 < _V1[7] THEN Max(1, Cardinality({i \in 1..7 : V0 > _V1[i]}))
  ELSE 6

\* lines 2790-2792: the resistance coefficient between two curves
Interpolate(Al, Al1, V0, l) ==
  Al + Div6(Mul6(V0 - _V1[l], Al1 - Al), _V1[l + 1] - _V1[l])

\* lines 2795-2796: the resistance R8 for the length L1
LengthCorrection(L1, R7) ==
  IF L1 >= 122 * U6
  THEN R7 - Div6((L1 - 122 * U6) \div 10, L1 + 66 * U6)
  ELSE R7 + Mul6(180, Pow(122 * U6 - L1, 6, 1300000, 6))

\* SpeedReject with nothing but the flag ignspd looked at
SpeedReject_IgnoreOnly(s) == ~s.ignspd

\* lines 2774 and 2779: whether a speed out of range ends _power
SpeedReject(s) == (~s.ignspd /\ ~s.dbgmd) \/ s.m_Cargo = 1

\* lines 2766-2802 of _power for the speed-length ratio V0 and the volume
\* length W0
PowerSpeedAt(s, V0, W0, l) ==
  LET X0 == 20 * (s.C - 675000)
      L1_safe == IF s.L1 > 0 THEN s.L1 ELSE 1
      reject == SpeedReject(s)
      K0 == IF V0 < 350000 THEN SPEED_LOW
            ELSE IF V0 > 900000 THEN SPEED_HIGH ELSE 1
      R6 == Interpolate(_resist(s, 16 * (l - 1), W0, X0),
                        _resist(s, 16 * l, W0, X0), V0, l)
      R8 == LengthCorrection(s.L1, Div6(Mul6(R6, W0), Mul6(2493800, L1_safe)))
      M5 == Mul6(s.M, Div6(2204, 2240))
      V3 == Mul9(Mul6(s.V, s.V), s.V)
      P == Mul6(Div6(Mul6(R8, V3), 427100), Pow(M5, 3, 666667, 3))
  IN  IF K0 # 1 /\ reject
      THEN [s EXCEPT !.Kpwrerr = K0, !.V0 = V0, !.ret = FALSE]
      ELSE [s EXCEPT !.Kpwrerr = K0, !.V0 = V0, !.P = P, !.ret = TRUE]

\* the volume length W0 of line 2761, never zero
VolumeLength(W0a) == IF W0a = 0 THEN 1 ELSE W0a

\* _power, lines 2751-2802: the speed check and the effective power P (U3);
\* V0 is the method's local of that name, ret tells whether _power goes on
PowerSpeedFrom(s, V0) ==
  PowerSpeedAt(s, V0,
               VolumeLength(Cbrt3(Mul6(Mul6(Mul9(s.L1, s.B), s.T), s.C))),
               SpeedRow(V0))
PowerSpeed(s) ==
  PowerSpeedFrom(s, Div6(s.V, Sqrt(Mul6(3280000, IF s.L1 > 0 THEN s.L1 ELSE 1))))

\* lines 2852 and 2857: whether a pitch ratio out of range ends _power
PitchReject(s) == (~s.ignpth /\ ~s.dbgmd) \/ s.m_Cargo = 1

\* lines 2840-2877 of _power: the efficiencies and the powers, for the pitch
\* ratio P5 that the Newton loop has left (less P4), the thrust coefficient
\* T3 and the torque coefficient Q3 at it
PropellerPowers(s, P5, Q1, Q2, F0) ==
  LET reject == PitchReject(s)
      Q == Mul6(Q1, Q2)
      K1 == IF P5 > 1400000 THEN s.Kpwrerr * PITCH_LOW ELSE s.Kpwrerr
      K2 == IF P5 < 500000 THEN K1 * PITCH_HIGH ELSE K1
      F9 == CASE s.Ketype = 1 -> 980000
              [] s.Ketype \in {2, 3, 4} -> 950000
              [] OTHER -> 960000
      Q_safe == IF Q # 0 THEN Q ELSE 1
      P1 == Div6(Mul6(Div6(s.P, Q_safe), F0), F9)
      s3 == [s EXCEPT !.Q1 = Q1, !.Q2 = Q2, !.Q = Q, !.P5 = P5, !.ret = FALSE]
  IN  IF P5 > 1400000 /\ reject THEN [s3 EXCEPT !.Kpwrerr = K1]
      ELSE IF P5 < 500000 /\ reject THEN [s3 EXCEPT !.Kpwrerr = K2]
      ELSE [s3 EXCEPT !.Kpwrerr = K2, !.F0 = F0, !.F9 = F9, !.P1 = P1,
                      !.P2 = Mul6(P1, U6 + 10000 * 30), !.ret = TRUE]

\* Q3, never zero (line 2843)
TorqueCoefficient(Q3a) == IF Q3a = 0 THEN 1 ELSE Q3a

\* lines 2834-2846: the exit of the Newton loop, nw = << P5, m0, A9 >>; m0
\* and A9 are the method's locals of those names
PropellerEfficiency(s, W9, J3, Z4, Y4, X4, nw) ==
  LET J2 == J3 - 458124
      Z5 == _A6[5] + Mul6(J2, _A6[6] + Mul6(J2, _A6[7] + Mul6(J2, _A6[8])))
      Y5 == _B6[5] + Mul6(J2, _B6[6] + Mul6(J2, _B6[7]))
      X5 == _C6[5] + Mul6(J2, _C6[6])
      L1_safe == IF s.L1 > 0 THEN s.L1 ELSE 1
  IN  IF nw[2] >= s.maxit
      THEN [s EXCEPT !.Kpwrerr = NOT_CONVERGE, !.ret = FALSE,
                     !.m0 = nw[2], !.A9 = nw[3]]
      ELSE PropellerPowers(
             [s EXCEPT !.m0 = nw[2], !.A9 = nw[3]], nw[1] + 930476,
             Div6(Mul6(PropPoly(Z4, Y4, X4, _D6[1], nw[1]), J3),
                  Mul6(6283185,
                       TorqueCoefficient(PropPoly(Z5, Y5, X5, _D6[5], nw[1])))),
             Div6(U6 - Mul6(600000, W9), U6 - W9),
             1200000 - Div6(Sqrt(L1_safe), 47 * U6))

\* lines 2820-2833: the polynomials in J2 and the Newton loop
PropellerPitch(s, W9, J3, J2, T3, Z4, Y4, X4) ==
  PropellerEfficiency(s, W9, J3, Z4, Y4, X4,
                      Newton(U6 - 930476, 0, s.maxit, Z4, Y4, X4, T3))

\* lines 2812-2819: the advance coefficient J3 and the thrust coefficient T3
PropellerLoad(s, W9, J3, J2, T3) ==
  PropellerPitch(s, W9, J3, J2, T3,
     _A6[1] + Mul6(J2, _A6[2] + Mul6(J2, _A6[3] + Mul6(J2, _A6[4]))),
     _B6[1] + Mul6(J2, _B6[2] + Mul6(J2, _B6[3])),
     _C6[1] + Mul6(J2, _C6[2]))

\* lines 2804-2811: the wake fraction W9, the diameter D5 and the rate of
\* revolution N5, neither of them zero
PropellerAt(s, W9, D5, N5) ==
  LET V5 == Mul6(Mul6(s.V, 515000), U6 - W9)
      V_safe == IF s.V # 0 THEN s.V ELSE 1
      T5 == Div6(Mul6(746100, s.P),
                 Mul6(Mul6(515000, V_safe), U6 - Mul6(600000, W9)))
      D52 == Mul6(D5, D5)
  IN  PropellerLoad(s, W9, Div6(V5, Mul6(N5, D5)),
                    Div6(V5, Mul6(N5, D5)) - 458124,
                    Div6(T5, Mul6(Mul6(1025000, Mul6(N5, N5)), Mul9(D52, D52))))

NonZero(x) == IF x # 0 THEN x ELSE 1

\* _power, lines 2804-2877: the propeller and the powers P1, P2 (U3), for
\* the record that PowerSpeed leaves; P5 is the method's local of that name
PowerPropeller(s) ==
  IF ~s.ret THEN s
  ELSE PropellerAt(s,
         1100000 - Mul6(3400000, s.C) + Mul6(3100000, Pow(s.C, 6, 1900000, 6)),
         NonZero(Mul6(s.Pdt, s.T)), NonZero(s.N2 \div 60))

\* _power: powers P, P1, P2 in U3, everything else in U6
_power(s) == PowerPropeller(PowerSpeed(s))

\* hours under way for the range R: R / (V if V > 0.1 else 0.1), in U3
VoyageHours(s) == Div6(s.R, IF s.V > 100000 THEN s.V ELSE 100000)

\* MassBalance with the stores W4 left out of the balance
MassBalance_NoStores(s, M1, M2a, M3a, W3a) ==
  LET fuel_data == FuelConfig[s.Ketype]
      M3 == IF "M_aux_mach" \in s.has THEN M3a + s.M_aux_mach ELSE M3a
      M2 == IF "M_aux_outfit" \in s.has THEN M2a + s.M_aux_outfit ELSE M2a
      M0 == Mul6(M1 + M2 + M3, 1020000)
      W3 == IF "W_aux_fuel" \in s.has THEN W3a + s.W_aux_fuel ELSE W3a
      sets_fuel == ~(s.Ketype > 3 /\ fuel_data.IsNuclear)
  IN  [s EXCEPT !.M1 = M1, !.M2 = M2, !.M3 = M3,
                !.calculated_fuel_mass = IF sets_fuel THEN W3a ELSE @,
                !.has = IF sets_fuel THEN @ \cup {"calculated_fuel_mass"} ELSE @,
                !.W1 = s.M - M0 - W3,
                !.W5 = s.M - M0,
                !.ret = TRUE]

\* lines of _mass after the three weights are known: the lightship with its
\* margin, the fuel W3, the stores W4 and the balance W1
MassBalance(s, M1, M2a, M3a, W3a) ==
  LET fuel_data == FuelConfig[s.Ketype]
      M3 == IF "M_aux_mach" \in s.has THEN M3a + s.M_aux_mach ELSE M3a
      M2 == IF "M_aux_outfit" \in s.has THEN M2a + s.M_aux_outfit ELSE M2a
      M0 == Mul6(M1 + M2 + M3, 1020000)
      W3 == IF "W_aux_fuel" \in s.has THEN W3a + s.W_aux_fuel ELSE W3a
      W4 == 13 * Pow(s.M, 3, 350000, 3)
      sets_fuel == ~(s.Ketype > 3 /\ fuel_data.IsNuclear)
  IN  [s EXCEPT !.M1 = M1, !.M2 = M2, !.M3 = M3,
                !.calculated_fuel_mass = IF sets_fuel THEN W3a ELSE @,
                !.has = IF sets_fuel THEN @ \cup {"calculated_fuel_mass"} ELSE @,
                !.W1 = s.M - M0 - W3 - W4,
                !.W5 = s.M - M0,
                !.ret = TRUE]

\* _mass: masses in U3; s.has is the set of optional attributes that exist
_mass(s) ==
  LET ship_data == ShipConfig[s.Kstype]
      fuel_data == FuelConfig[s.Ketype]
      E1 == Mul9(s.L1, s.B + s.T) + Mul9(Mul6(850000, s.L1), s.D - s.T) + 250 * U3
      T_safe == IF s.T # 0 THEN s.T ELSE 1
      C1 == s.C + Div6(Mul6(800000, s.D) - s.T, 10 * T_safe)
      K1 == ship_data.Steel_K1
      K2 == IF ship_data.Outfit_Slope > 1
            THEN ship_data.Outfit_Intercept - Div3(s.L1, ship_data.Outfit_Slope)
            ELSE ship_data.Outfit_Intercept
      K3c == IF ship_data.ID = 1 THEN 590000 ELSE 560000
      is_legacy_diesel == s.Ketype = 1 \/ s.Ketype = 2
      is_legacy_steam == s.Ketype = 3
      installed_power_kw == Mul6(s.P2, 745700)
      lhv == IF s.m_LHV <= 1000 THEN 42700000 ELSE s.m_LHV
  IN  MassBalance(
        s,
        Mul6(Mul6(K1, Pow(E1, 3, 1360000, 3)), U6 + (C1 - 700000) \div 2),
        Mul6(K2, Mul9(s.L1, s.B)),
        IF is_legacy_diesel
        THEN Mul6(9380000, Pow(Div6(s.P2, s.N1), 3, 840000, 3))
             + Mul6(K3c, Pow(s.P2, 3, 700000, 3))
        ELSE IF is_legacy_steam
             THEN Mul6(160000, Pow(s.P2, 3, 890000, 3))
             ELSE (IF fuel_data.IsNuclear THEN 2000 * U3 ELSE 200 * U3)
                  + (installed_power_kw * fuel_data.Machinery) \div U3,
        IF is_legacy_diesel
        THEN Mul6(Mul6(s.P1, 165000), VoyageHours(s))
        ELSE IF is_legacy_steam
             THEN Mul6(Mul6(s.P1, 308000), VoyageHours(s))
             ELSE IF fuel_data.IsNuclear THEN 0
             ELSE Mul6(Mul6(Mul6(Div6(Mul6(s.P1, 745700),
                                      Mul6(lhv, fuel_data.Efficiency)),
                                 VoyageHours(s)),
                            3600000),
                       fuel_data.TankFactor))

\* the economic inputs, which stay at the values __init__ gives them:
\* fuel price ($/tonne), interest (%), repayment (years), voyages a year,
\* days at sea a year, and the cost coefficients ($)
m_Fuel == 625
m_Interest == 10
m_Repay == 15
m_Voyages == 17
m_Seadays == 340
m_S1_Steel1 == 22000
m_S2_Steel2 == 3800
m_S3_Outfit1 == 240000
m_S4_Outfit2 == 50000
m_S5_Machinery1 == 9500
m_S6_Machinery2 == 21000
m_Reactor_Cost_per_kW == 9000
m_Core_Life == 20
m_Decom_Cost == 200
\* m_H2_Crew + m_H4_Port + m_H5_Stores + m_H6_Overhead + m_H8_Other, in k$
FixedCharges == 3000 + 1500 + 650 + 1500 + 0

\* the end of _auxiliary for the total load P_aux_total and the insulation
\* weight M_aux_outfit
\* AuxiliaryLoads where every fuel type gets diesel generators and their fuel
AuxiliaryLoads_Generators(s, P_aux_total, M_aux_outfit) ==
  [s EXCEPT !.P_aux_total = P_aux_total,
            !.M_aux_outfit = M_aux_outfit,
            !.M_aux_mach = Mul6(P_aux_total, 15000),
            !.W_aux_fuel = Mul6(Mul6(P_aux_total, 220000), VoyageHours(s)),
            !.aux_cost_annual =
               Mul6(Mul6(P_aux_total, 365 * 24 * 220), m_Fuel)]

AuxiliaryLoads(s, P_aux_total, M_aux_outfit) ==
  IF s.Ketype = 4
  THEN [s EXCEPT !.P_aux_total = P_aux_total,
                 !.M_aux_outfit = M_aux_outfit,
                 !.P2 = @ + P_aux_total]
  ELSE [s EXCEPT !.P_aux_total = P_aux_total,
                 !.M_aux_outfit = M_aux_outfit,
                 !.M_aux_mach = Mul6(P_aux_total, 15000),
                 !.W_aux_fuel = Mul6(Mul6(P_aux_total, 220000), VoyageHours(s)),
                 !.aux_cost_annual =
                    Mul6(Mul6(P_aux_total, 365 * 24 * 220), m_Fuel)]

\* _auxiliary: generator loads in kW (U3); ui holds the widgets' contents
_auxiliary(s, ui) ==
  LET reset == [s EXCEPT !.P_aux_total = 0, !.M_aux_mach = 0, !.M_aux_outfit = 0,
                         !.W_aux_fuel = 0, !.aux_cost_annual = 0,
                         !.has = @ \cup {"M_aux_mach", "M_aux_outfit",
                                         "W_aux_fuel", "aux_cost_annual"}]
      pct == ui.edit_aux_p1 \div 100
      load_factor == ui.edit_aux_p2
      base_units == IF s.design_mode = 2 THEN s.m_TEU ELSE Div3(s.W, 14 * U3)
      vol_est == Mul6(s.W, 1500000)
      p_cargo == IF ui.combo_aux_mode = "Reefer"
                 THEN Mul6(Mul6(base_units, pct), load_factor)
                 ELSE IF ui.combo_aux_mode = "Hold"
                      THEN Mul6(vol_est \div U3, load_factor)
                      ELSE 0
  IN  IF ~ui.check_aux_enable THEN reset
      ELSE AuxiliaryLoads(reset, ui.edit_aux_base + p_cargo,
                          IF ui.combo_aux_mode = "Hold"
                          THEN Mul6(vol_est, 20000) ELSE 0)

Sqr(x) == Mul6(x, x)

\* the end of _apply_resistance_breakdown: the savings are taken off the
\* powers
BreakdownSavings(s, p_savings_kw, savings_bhp) ==
  [s EXCEPT !.p_savings_kw = p_savings_kw,
            !.P1 = IF s.P1 - savings_bhp < 0 THEN 100 * U3
                   ELSE s.P1 - savings_bhp,
            !.P2 = @ - savings_bhp]

\* the saving of the wind-assist device after that of the air lubrication
BreakdownWind(s, ui, pe_kw, als_kw) ==
  LET wind_kw == IF ui.check_wind
                 THEN Mul6(pe_kw - als_kw, ui.edit_wind_sav \div 100)
                 ELSE 0
  IN  BreakdownSavings(s, als_kw + wind_kw, Div6(als_kw + wind_kw, 745700))

\* the friction resistance, which is 70 % of the total where the wave
\* resistance would come out negative
FrictionShare(res_total, res_friction0, res_air) ==
  IF res_total - (res_friction0 + res_air + Mul6(res_total, 40000)) < 0
  THEN Mul6(res_total, 700000)
  ELSE res_friction0

\* the saving of the air lubrication
BreakdownAls(s, ui, V_ms, pe_kw, res_friction, ratio0) ==
  LET ratio_bottom == IF ratio0 > U6 THEN U6 ELSE ratio0
      drag_reduction_kn == Mul6(Mul6(res_friction, ratio_bottom),
                                ui.edit_als_eff \div 100)
  IN  BreakdownWind(s, ui, pe_kw,
                    IF ui.check_als THEN Mul6(drag_reduction_kn, V_ms) ELSE 0)

\* the components of the resistance
BreakdownParts(s, ui, V_ms, pe_kw, res_total, area_wetted, V2) ==
  LET cb_safe == IF s.C > 0 THEN s.C ELSE 800000
      VL == Mul9(V_ms, s.L1)
      cf == IF VL > 0
            THEN Div9(75000, Sqr(Div6(Log2(VL) - Log2(U3), 3321928)
                                 + 5925184 - 2 * U6))
            ELSE 1500000
      frontal_area == Mul9(s.B, s.D - s.T + 10 * U6)
      area_bottom == Mul6(Mul9(s.L1, s.B), cb_safe)
  IN  BreakdownAls(
        s, ui, V_ms, pe_kw,
        FrictionShare(
          res_total,
          Mul9(Mul6(Mul6(512500, area_wetted), V2), cf),
          Mul6(Mul6(Mul6(612500, frontal_area), V2), 800000) \div U3),
        Div6(area_bottom, IF area_wetted > 0 THEN area_wetted ELSE U3))

\* the speed in m/s and the effective power in kW
BreakdownAt(s, ui, V_ms, pe_kw) ==
  BreakdownParts(s, ui, V_ms, pe_kw, Div6(pe_kw, V_ms),
                 Mul9(Mul6(1025000, s.L1),
                      Mul6(IF s.C > 0 THEN s.C ELSE 800000, s.B)
                      + Mul6(1700000, s.T)),
                 Sqr(V_ms))

\* _apply_resistance_breakdown: resistances in kN and powers in kW (U3); the
\* display-only components are left out, the savings and P1, P2 are kept
_apply_resistance_breakdown(s, ui) ==
  BreakdownAt(s, ui,
              IF Mul6(s.V, 514400) <= 0 THEN 100000 ELSE Mul6(s.V, 514400),
              Mul6(s.P, 745700))

\* the capital charge factor of _cost for the compounded interest H0a:
\* where H0a is 1.0 it is taken as 1e-9, which leaves I_rate * 1e-9 / -1.0
Annuity(I_rate, H0a) ==
  IF H0a - U6 = 0 THEN 0 ELSE Div6(Mul6(I_rate, H0a), H0a - U6)

\* the annual costs of _cost for the building cost S and the charge factor H0
CostOf(s, S, H0) ==
  LET fuel_data == FuelConfig[s.Ketype]
      S0_nuclear == IF s.Ketype = 4
                    THEN Mul6(m_Reactor_Cost_per_kW, Mul6(s.P2, 745700))
                    ELSE 0
      H1 == Mul6(H0, S)
      H3 == Mul6(40000, S)
      annual_fuel_tonnes ==
        IF s.m_LHV > 0
        THEN Mul6(Div6(Mul6(s.P1, 745700), Mul6(s.m_LHV, fuel_data.Efficiency)),
                  m_Seadays * 24 * 3600)
        ELSE 0
      H7a == IF fuel_data.IsNuclear
             THEN S0_nuclear \div m_Core_Life
                  + (m_Decom_Cost * K3) \div (IF s.N > 0 THEN s.N ELSE 1)
             ELSE Mul6(annual_fuel_tonnes, m_Fuel)
      H7 == IF "aux_cost_annual" \in s.has THEN H7a + s.aux_cost_annual ELSE H7a
      Rt == H1 + FixedCharges + H3 + H7
      W1_safe == IF s.W1 # 0 THEN s.W1 ELSE 1
  IN  [s EXCEPT !.S = S, !.H1 = H1, !.H7 = H7,
                !.Rf = Div9(Rt, m_Voyages * W1_safe), !.ret = TRUE]

\* _cost: money in thousands of dollars, so that S is in M$ (U3) and Rf in
\* $/tonne (U3); the carbon-tax box is unchecked and the premium is 0.0
_cost(s) ==
  LET C_safe == IF s.C # 0 THEN s.C ELSE 1
      S8 == Mul3(m_S1_Steel1,
                 Div6(Mul6(Pow(s.M1, 3, 666667, 3), Pow(s.L1, 6, 333333, 6)),
                      C_safe)) \div K3
            + Mul3(m_S2_Steel2, s.M1) \div K3
      S9 == Mul3(m_S3_Outfit1, Pow(s.M2, 3, 666667, 3)) \div K3
            + Mul3(m_S4_Outfit2, Pow(s.M2, 3, 950000, 3)) \div K3
      S0 == IF s.Ketype = 4
            THEN Mul6(m_Reactor_Cost_per_kW, Mul6(s.P2, 745700))
            ELSE Mul3(m_S5_Machinery1 + m_S6_Machinery2,
                      Pow(s.P1, 3, 820000, 3)) \div K3
  IN  CostOf(s, S8 + S9 + S0,
             Annuity(Mul6(s.I, 10000),
                     Pow(U6 + Mul6(s.I, 10000), 6, s.N * U6, 6)))

\* _estimate_teu_capacity(L1, B, D) of the hull s, in TEU (U3)
_estimate_teu_capacity(s) ==
  LET LBD_product == Mul6(Mul9(s.L1, s.B), s.D)
  IN  IF LBD_product <= 0 THEN 0
      ELSE Pow(Div6(LBD_product + 20143620, 104422000), 3, 1111111, 3)

\* the ratio of the volume required to the volume available
VolumeRatio(vol_req, vol_avail) ==
  << vol_req, vol_avail, Div6(vol_req, IF vol_avail > 0 THEN vol_avail ELSE U3) >>

\* _get_volume_status: << vol_req, vol_avail, ratio >>, volumes in m3 (U3)
_get_volume_status(s) ==
  LET ship_data == ShipConfig[s.Kstype]
      fuel_data == FuelConfig[s.Ketype]
      vol_hull == Mul6(Mul6(Mul9(s.L1, s.B), s.D), s.C)
      density == IF s.m_CustomDensity > 0 THEN s.m_CustomDensity
                 ELSE ship_data.Cargo_Density
      vol_cargo == IF s.design_mode = 2 THEN 33 * s.m_TEU
                   ELSE IF ship_data.Design_Type = "Volume"
                        THEN (IF ship_data.ID = 5 THEN 50 * s.W ELSE 2 * s.W)
                        ELSE Mul6(Div6(s.W, density), 1100000)
      vol_fuel == IF "calculated_fuel_mass" \in s.has
                     /\ s.calculated_fuel_mass > 0 /\ fuel_data.Density > 0
                  THEN Mul6(Div6(s.calculated_fuel_mass, fuel_data.Density * K3),
                            fuel_data.VolFactor)
                  ELSE 0
      vol_mach == Mul6(Mul6(s.P2, 745700), 400000)
      vol_stores == Mul6(s.W1, 50000)
  IN  VolumeRatio(vol_cargo + vol_fuel + vol_mach + vol_stores,
                  Mul6(vol_hull, ship_data.Profile_Factor))

\* the end of one pass of the expansion loop: the payload is set where the
\* cargo fits
ExpandFit(s, fits, rest) ==
  [s EXCEPT !.W1 = IF fits THEN s.M - rest ELSE @, !.ret = fits]

\* the displacement and the draught of the pass, for the weights _mass gave
ExpandDraught(s, target_payload, rest) ==
  LET C_safe == IF s.C > 0 THEN s.C ELSE 800000
      M == target_payload + rest
      new_T == Div6(M, Mul6(Mul6(Mul9(s.L1, s.B), C_safe), 1025000))
  IN  ExpandFit([s EXCEPT !.M = M, !.T = Min(new_T, Mul6(s.D, 900000))],
                _get_volume_status(
                  [s EXCEPT !.M = M, !.T = Min(new_T, Mul6(s.D, 900000))])[3]
                <= U6,
                rest)

\* the weights of the pass
ExpandMass(s, target_payload) ==
  ExpandDraught(s, target_payload,
                Mul6(s.M1 + s.M2 + s.M3, 1020000)
                + (IF "calculated_fuel_mass" \in s.has
                   THEN s.calculated_fuel_mass ELSE 0)
                + 13 * Pow(s.M, 3, 350000, 3))

\* the power of the pass; where _power fails the old powers are scaled
ExpandPower(s, target_payload) ==
  ExpandMass(_mass(IF s.ret THEN s
                   ELSE [s EXCEPT !.P1 = Mul6(@, 1040400),
                                  !.P2 = Mul6(@, 1040400)]),
             target_payload)

\* the hull of the pass where the breadth is scaled like the depth,
\* whatever the constraints
ExpandHull_Scaled(s, L1, D) ==
  [s EXCEPT !.L1 = L1,
            !.B = IF L1 > 0 THEN Mul6(s.B, 1020000) ELSE s.B,
            !.D = D,
            !.T = Mul6(D, 700000)]

\* lines 1400-1413: the hull of the pass for the length L1 and the depth D
ExpandHull(s, L1, D) ==
  [s EXCEPT !.L1 = L1,
            !.B = IF L1 > 0
                  THEN (IF s.m_Lbratio THEN Div6(L1, s.m_LbratioV)
                        ELSE Mul6(s.B, 1020000))
                  ELSE s.B,
            !.D = D,
            !.T = Mul6(D, 700000)]

\* the hull that a pass of the expansion loop hands to _power
ExpandCall(s) ==
  ExpandHull(s, Mul6(s.L1, 1020000),
             IF Mul6(s.L1, 1020000) > 0 THEN Mul6(s.D, 1020000) ELSE s.D)

\* one pass of the expansion loop of _solve_volume_limit for the payload
\* target_payload; ret tells whether the pass ended the loop
VolumeExpand(s, target_payload) ==
  ExpandPower(_power(ExpandCall(s)), target_payload)

\* ------------------------------------------------------------------------
\* The widget and its input fields
\* ------------------------------------------------------------------------

\* the regression coefficients that on_dialog_modify shows (U6), at the
\* values __init__ gives them
Coef ==
  [Lb01 |-> 4000000, Lb02 |-> 25000, Lb03 |-> 30000000, Lb04 |-> 6500000,
   Lb05 |-> 130000000,
   Cb1 |-> << << 930000, 110000, 1230000, 395000, 1000000 >>,
              << 930000, 110000, 1230000, 395000, 1000000 >>,
              << 1230000, 395000, 1230000, 395000, 1000000 >> >>,
   L1n |-> << << 0, 5000000, 800000 >>, << 0, 5000000, 800000 >>,
              << 0, 5000000, 700000 >> >>]

\* f"{x:.6g}" read back as a number: x rounded to six significant digits
Fmt6g(x) ==
  LET a == Abs(x)
      u == CHOOSE v \in {1, 10, 100, 1000, 10000} :
             /\ v = 10000 \/ a \div v < U6
             /\ v = 1 \/ a \div (v \div 10) >= U6
  IN  Sgn(x) * ((a + u \div 2) \div u) * u

\* the texts that m_Results and the text_results widget are made of, each
\* named by the words that tell it from the others
Text ==
  [Prompt |-> "Press the Calculate button",
   VolumeDetected |-> "--- VOLUME LIMIT DETECTED ---",
   VolumeConverged |-> "-> Converged at L=",
   VolumeLimitReached |-> "-> WARNING: Volume expansion limit reached.",
   RpmCorrecting |-> "[Auto-Correcting Propeller RPM for larger hull...]",
   RpmFailed |-> "ERROR: Propeller design failed even after adjustment.",
   AuxCritical |-> "!!! CRITICAL WARNING !!!",
   TooHeavy |-> "!!! DESIGN ERROR: SHIP TOO HEAVY !!!",
   VolumeLimited |-> "!!! DESIGN WARNING: VOLUME-LIMITED !!!",
   Output |-> "------- End of output results.",
   NoOutput |-> "  --- No output is selected!",
   RangeRunning |-> "Running range analysis for",
   RangeStep |-> "Running step"]

\* the output options that _outvdu tests together: the ship and its
\* performance (ob1) and the economics (ob2); outopt_data is the set of the
\* options that are selected, and OutoptDialog selects them all
Ob1 ==
  {"ol", "ob", "olb", "od", "ot", "obt", "ocb", "odisp", "ocdw", "otdw",
   "opdt", "ospeed", "orange", "oerpm", "oprpm", "ospower", "oipower", "ope",
   "ono", "onh", "oqpc", "oscf", "ont", "omargin", "osmass", "oomass",
   "ommass", "ofbd", "oagm"}
Ob2 ==
  {"ovyear", "osdyear", "ofcost", "oirate", "oreyear", "obcost", "oacc",
   "oafc", "orfr"}

\* text_results.append(line)
Say(s, line) == [s EXCEPT !.text_results = Append(@, line)]

\* the attributes after __init__: lengths, ratios, speeds and RPM in U6,
\* masses, powers, volumes, the range and the TEU count in U3, m_Error in
\* U6 (percent) and E in U6 (tonnes)
InitData ==
  [m_Econom |-> TRUE, m_VolumeLimit |-> TRUE, m_CustomDensity |-> -1000000,
   m_Block |-> 818525, m_Breadth |-> 31898924, m_Depth |-> 15358741,
   m_Draught |-> 11725275, m_Erpm |-> 120000000, m_LHV |-> 42700000,
   m_Length |-> 207343010, m_Prpm |-> 120000000, m_Range |-> 12000000,
   m_Speed |-> 15000000, m_Weight |-> 50000000, m_Cargo |-> 0,
   m_Error |-> 1000, m_Lbratio |-> FALSE, m_Btratio |-> FALSE,
   m_Cbvalue |-> FALSE, m_BtratioV |-> 2720527, m_CbvalueV |-> 818525,
   m_LbratioV |-> 6500000, m_Bvalue |-> FALSE, m_BvalueV |-> 31898924,
   m_PdtratioV |-> 600000, m_Pdtratio |-> TRUE, m_TEU |-> 3000000,
   m_TEU_Avg_Weight |-> 14000, Ketype |-> 1, Kstype |-> 1, Kpwrerr |-> 1,
   CalculatedOk |-> FALSE, design_mode |-> 0, target_teu |-> 0,
   ignspd |-> FALSE, ignpth |-> FALSE, dbgmd |-> FALSE, maxit |-> 1000,
   L1 |-> 0, B |-> 0, D |-> 0, T |-> 0, C |-> 0, R |-> 0, V |-> 0, N1 |-> 0,
   N2 |-> 0, Pdt |-> 0, W |-> 0, E |-> 0, W1 |-> 0, M |-> 0, M1 |-> 0,
   M2 |-> 0, M3 |-> 0, W5 |-> 0, P |-> 0, P1 |-> 0, P2 |-> 0, Q |-> 0,
   Q1 |-> 0, Q2 |-> 0, F0 |-> 0, F5 |-> 0, F9 |-> 0, G6 |-> 0, Kcount |-> 0,
   calculated_fuel_mass |-> 0, M_aux_mach |-> 0, M_aux_outfit |-> 0,
   W_aux_fuel |-> 0, aux_cost_annual |-> 0, P_aux_total |-> 0,
   p_savings_kw |-> 0, S |-> 0, H1 |-> 0, H7 |-> 0, Rf |-> 0, has |-> {},
   V0 |-> 0, P5 |-> 0, m0 |-> 0, A9 |-> 0, ret |-> TRUE,
   m_Append |-> FALSE, Kcases |-> 0, m_Results |-> << Text.Prompt >>,
   text_results |-> << Text.Prompt >>, m_Interest |-> m_Interest * U6,
   m_Repay |-> m_Repay * U6, I |-> 0, N |-> 0, outopt_data |-> Ob1 \cup Ob2]

\* the end of _initdata: the ratios that the user has not fixed follow the
\* dimensions
InitRatios(a) ==
  LET B_safe == IF a.B # 0 THEN a.B ELSE 1
      T_safe == IF a.T # 0 THEN a.T ELSE 1
      L1_safe == IF a.L1 # 0 THEN a.L1 ELSE 1
      is_ship_mode == a.design_mode = 1
  IN  [a EXCEPT
         !.m_LbratioV = IF ~a.m_Lbratio \/ is_ship_mode
                        THEN Div6(2 * L1_safe + 1, 2 * B_safe) ELSE @,
         !.m_BvalueV = IF ~a.m_Bvalue \/ is_ship_mode THEN a.B ELSE @,
         !.m_BtratioV = IF ~a.m_Btratio \/ is_ship_mode
                        THEN Div6(2 * B_safe + 1, 2 * T_safe) ELSE @,
         !.m_CbvalueV = IF ~a.m_Cbvalue \/ is_ship_mode THEN a.C ELSE @]

\* _initdata(0) and _initdata(1)
_initdata(s, i) ==
  InitRatios(IF i = 0
             THEN [s EXCEPT !.L1 = s.m_Length, !.B = s.m_Breadth, !.D = s.m_Depth,
                            !.T = s.m_Draught, !.C = s.m_Block, !.R = s.m_Range,
                            !.V = s.m_Speed, !.N1 = s.m_Erpm, !.N2 = s.m_Prpm,
                            !.I = s.m_Interest,
                            !.N = Sgn(s.m_Repay) * (Abs(s.m_Repay) \div U6),
                            !.Pdt = s.m_PdtratioV]
             ELSE [s EXCEPT !.m_Length = ((s.L1 + 5) \div 10) * 10,
                            !.m_Breadth = s.B, !.m_Depth = s.D, !.m_Draught = s.T,
                            !.m_Block = s.C, !.m_BvalueV = s.B,
                            !.m_PdtratioV = s.Pdt, !.m_Repay = s.N * U6])

\* the edit fields in the order in which _update_ui_to_data converts them,
\* each with the attribute it is stored in
ParseOrder ==
  << << "edit_weight", "m_Weight" >>, << "edit_error", "m_Error" >>,
     << "edit_teu", "m_TEU" >>, << "edit_teu_weight", "m_TEU_Avg_Weight" >>,
     << "edit_lbratio", "m_LbratioV" >>, << "edit_bvalue", "m_BvalueV" >>,
     << "edit_btratio", "m_BtratioV" >>, << "edit_cbvalue", "m_CbvalueV" >>,
     << "edit_pdtratio", "m_PdtratioV" >>, << "edit_length", "m_Length" >>,
     << "edit_breadth", "m_Breadth" >>, << "edit_draught", "m_Draught" >>,
     << "edit_depth", "m_Depth" >>, << "edit_block", "m_Block" >>,
     << "edit_speed", "m_Speed" >>, << "edit_range", "m_Range" >>,
     << "edit_prpm", "m_Prpm" >>, << "edit_erpm", "m_Erpm" >>,
     << "edit_interest", "m_Interest" >>, << "edit_repay", "m_Repay" >> >>

\* the place in ParseOrder of the first edit field whose text is no number,
\* one past its end where all are numbers
FirstBad(bad) ==
  Cardinality({k \in 1..Len(ParseOrder) :
                 \A j \in 1..k : ParseOrder[j][1] \notin bad}) + 1

\* _update_ui_to_data where the conversion stops at place n: the fields
\* before it have been stored
UpdateUpTo(s, ui, n) ==
  LET a == [f \in DOMAIN s |->
              IF \E k \in 1..(n - 1) : ParseOrder[k][2] = f
              THEN ui[ParseOrder[CHOOSE k \in 1..(n - 1) :
                                   ParseOrder[k][2] = f][1]]
              ELSE s[f]]
      density_bad == ui.density_visible /\ "edit_density" \in ui.bad
  IN  IF n <= Len(ParseOrder) THEN [a EXCEPT !.ret = FALSE]
      ELSE IF density_bad
           THEN [a EXCEPT !.m_VolumeLimit = ui.check_vol_limit, !.ret = FALSE]
           ELSE [a EXCEPT
                   !.m_VolumeLimit = ui.check_vol_limit,
                   !.m_CustomDensity = IF ui.density_visible
                                       THEN ui.edit_density ELSE -1000000,
                   !.m_Cargo = ui.radio,
                   !.m_Econom = ui.check_econom,
                   !.m_Lbratio = ui.check_lbratio,
                   !.m_Bvalue = ui.check_bvalue,
                   !.m_Btratio = ui.check_btratio,
                   !.m_Cbvalue = ui.check_cbvalue,
                   !.m_Pdtratio = ui.check_pdtratio,
                   !.m_Append = ui.check_append,
                   !.Kstype = ui.combo_ship,
                   !.Ketype = ui.combo_engine,
                   !.ret = TRUE]

\* _update_ui_to_data: ui.bad holds the edit fields whose text is no number
_update_ui_to_data(s, ui) == UpdateUpTo(s, ui, FirstBad(ui.bad))

\* _update_data_to_ui: every edit field is rewritten with six digits
_update_data_to_ui(s, ui) ==
  LET a == [f \in DOMAIN ui |->
              IF f # "edit_range" /\ \E k \in 1..Len(ParseOrder) :
                                        ParseOrder[k][1] = f
              THEN Fmt6g(s[ParseOrder[CHOOSE k \in 1..Len(ParseOrder) :
                                        ParseOrder[k][1] = f][2]])
              ELSE ui[f]]
  IN  [a EXCEPT
         !.bad = @ \cap {"edit_range", "edit_density"},
         !.combo_ship = s.Kstype, !.combo_engine = s.Ketype,
         !.check_vol_limit = s.m_VolumeLimit, !.check_econom = s.m_Econom,
         !.radio = s.m_Cargo, !.check_lbratio = s.m_Lbratio,
         !.check_bvalue = s.m_Bvalue, !.check_btratio = s.m_Btratio,
         !.check_cbvalue = s.m_Cbvalue, !.check_pdtratio = s.m_Pdtratio,
         !.check_append = s.m_Append]

\* _reset_dlg, as far as it changes what the input widgets hold
_reset_dlg(ui) ==
  LET ship_data == ShipConfig[ui.combo_ship]
      ship_id == ship_data.ID
      aux_ok == \/ ui.combo_aux_mode = "None"
                \/ ui.combo_aux_mode = "Reefer" /\ ship_id = 4
                \/ ui.combo_aux_mode = "Hold" /\ ship_id \in {2, 3}
      radio == IF ship_id = 4 THEN (IF ui.radio = 1 THEN 2 ELSE ui.radio)
               ELSE IF ui.radio = 2 THEN 0 ELSE ui.radio
      show_density == ui.check_vol_limit /\ ship_data.Design_Type = "Deadweight"
      fill_density == show_density /\ "edit_density" \notin ui.bad
                      /\ ui.edit_density = 0
  IN  [ui EXCEPT !.combo_aux_mode = IF aux_ok THEN @ ELSE "None",
                 !.radio = radio,
                 !.density_visible = show_density,
                 !.edit_density = IF fill_density THEN ship_data.Cargo_Density
                                  ELSE @]

\* on_check_lbratio for the widget w = [d, ui] whose box has taken the state
\* checked; the box B that it unchecks calls on_check_bvalue(False), which
\* stores the flag and calls _reset_dlg
on_check_lbratio(w, checked) ==
  IF checked /\ w.ui.check_bvalue
  THEN [d |-> [w.d EXCEPT !.m_Lbratio = checked, !.m_Bvalue = FALSE],
        ui |-> _reset_dlg([w.ui EXCEPT !.check_bvalue = FALSE])]
  ELSE [d |-> [w.d EXCEPT !.m_Lbratio = checked], ui |-> _reset_dlg(w.ui)]

\* on_check_bvalue without its test of the box L/B
on_check_bvalue_Plain(w, checked) ==
  [d |-> [w.d EXCEPT !.m_Bvalue = checked], ui |-> _reset_dlg(w.ui)]

\* on_check_bvalue, likewise
on_check_bvalue(w, checked) ==
  IF checked /\ w.ui.check_lbratio
  THEN [d |-> [w.d EXCEPT !.m_Bvalue = checked, !.m_Lbratio = FALSE],
        ui |-> _reset_dlg([w.ui EXCEPT !.check_lbratio = FALSE])]
  ELSE [d |-> [w.d EXCEPT !.m_Bvalue = checked], ui |-> _reset_dlg(w.ui)]

\* the boxes of the two constraints on the breadth
Boxes == << "check_lbratio", "check_bvalue" >>

\* setChecked(checked) of Boxes[n]: toggled is emitted where the state of
\* the box changes (lines 1020, 1022)
SetChecked(w, n, checked) ==
  IF w.ui[Boxes[n]] = checked THEN w
  ELSE IF n = 1
       THEN on_check_lbratio([w EXCEPT !.ui.check_lbratio = checked], checked)
       ELSE on_check_bvalue([w EXCEPT !.ui.check_bvalue = checked], checked)

\* _check_data with the range R left out of its test at line 1272
_check_data_NoRange(s) ==
  /\ s.Kstype \in 1..Len(ShipConfig)
  /\ s.Ketype \in 1..Len(FuelConfig)
  /\ s.m_Cargo = 0 => ~(s.W <= 0 \/ s.E <= 0)
  /\ s.m_Cargo = 2 => ~(s.m_TEU <= 0 \/ s.m_TEU_Avg_Weight <= 0)
  /\ s.m_Cargo = 1 => /\ ~(s.L1 <= 0 \/ s.B <= 0 \/ s.D <= 0 \/ s.T <= 0 \/ s.C <= 0)
                      /\ ~(s.C > U6)
  /\ s.m_Cargo # 1 => /\ ~(s.m_Lbratio /\ s.m_LbratioV <= 0)
                      /\ ~(s.m_Bvalue /\ s.m_BvalueV <= 0)
                      /\ ~(s.m_Btratio /\ s.m_BtratioV <= 0)
                      /\ ~(s.m_Cbvalue /\ (s.m_CbvalueV <= 0 \/ s.m_CbvalueV > U6))
  /\ ~(s.m_Pdtratio /\ s.m_PdtratioV <= 0)
  /\ ~(s.V <= 0 \/ s.N1 <= 0 \/ s.N2 <= 0)
  /\ s.m_Econom => ~(s.I < 0 \/ s.N < 1)

\* _check_data (the voyages and the sea days stay at the values of __init__,
\* which pass the test of line 1278)
_check_data(s) ==
  /\ s.Kstype \in 1..Len(ShipConfig)
  /\ s.Ketype \in 1..Len(FuelConfig)
  /\ s.m_Cargo = 0 => ~(s.W <= 0 \/ s.E <= 0)
  /\ s.m_Cargo = 2 => ~(s.m_TEU <= 0 \/ s.m_TEU_Avg_Weight <= 0)
  /\ s.m_Cargo = 1 => /\ ~(s.L1 <= 0 \/ s.B <= 0 \/ s.D <= 0 \/ s.T <= 0 \/ s.C <= 0)
                      /\ ~(s.C > U6)
  /\ s.m_Cargo # 1 => /\ ~(s.m_Lbratio /\ s.m_LbratioV <= 0)
                      /\ ~(s.m_Bvalue /\ s.m_BvalueV <= 0)
                      /\ ~(s.m_Btratio /\ s.m_BtratioV <= 0)
                      /\ ~(s.m_Cbvalue /\ (s.m_CbvalueV <= 0 \/ s.m_CbvalueV > U6))
  /\ ~(s.m_Pdtratio /\ s.m_PdtratioV <= 0)
  /\ ~(s.V <= 0 \/ s.R <= 0 \/ s.N1 <= 0 \/ s.N2 <= 0)
  /\ s.m_Econom => ~(s.I < 0 \/ s.N < 1)

\* the displacement 1.025 * L1 * B * T * C (U3)
Displacement(s) == Mul6(Mul6(Mul9(Mul6(1025000, s.L1), s.B), s.T), s.C)

\* the block coefficient for the speed-length ratio vosl
BlockCoefficient(s, Cb, vosl) ==
  IF s.m_Cbvalue THEN s.m_CbvalueV
  ELSE IF vosl < Cb[5] THEN Cb[1] - Mul6(Cb[2], vosl)
  ELSE Cb[3] - Mul6(Cb[4], vosl)

\* the draught after _freeboard, and the displacement
DimensionsT(s, T) == [s EXCEPT !.T = T, !.M = Displacement([s EXCEPT !.T = T])]
DimensionsF(s) ==
  DimensionsT(s, IF ~s.m_Btratio /\ s.Kstype < 3 THEN s.D - s.F5 ELSE s.T)

\* the depth D for the breadth B and the first draught T0
DimensionsD(s, k, B, T0) ==
  LET r == IF k = 1 THEN 780000 ELSE 700000
      D == IF s.m_Btratio THEN Div6(T0, r)
           ELSE IF k = 1 THEN Div6(s.L1, 13500000)
           ELSE IF k = 2 THEN Div6(s.L1, 11750000)
           ELSE Div6(B - 2740000, 1400000)
      vosl == Div6(s.V, IF s.L1 > 0 THEN Sqrt(s.L1) ELSE 1)
  IN  DimensionsF(_freeboard(
        [s EXCEPT !.B = B, !.C = BlockCoefficient(s, Coef.Cb1[k], vosl),
                  !.D = D, !.T = T0]))

\* the first draught T0 for the breadth B
DimensionsB(s, k, B) ==
  DimensionsD(s, k, B,
              IF s.m_Btratio THEN Div6(B, s.m_BtratioV)
              ELSE IF k = 1 THEN Mul6(780000, Div6(s.L1, 13500000))
              ELSE IF k = 2 THEN Mul6(700000, Div6(s.L1, 11750000))
              ELSE Mul6(700000, Div6(B - 2740000, 1400000)))

\* lines 1556-1612 of on_calculate: B, C, D, T and M for the length L1
Dimensions(s) ==
  DimensionsB(s, IF s.Kstype < 3 THEN s.Kstype ELSE 3,
              IF s.m_Lbratio THEN Div6(s.L1, s.m_LbratioV)
              ELSE IF s.m_Bvalue THEN s.m_BvalueV
              ELSE IF s.L1 <= Coef.Lb05
                   THEN Div6(s.L1, Coef.Lb01 + Mul6(Coef.Lb02, s.L1 - Coef.Lb03))
                   ELSE Div6(s.L1, Coef.Lb04))

VARIABLES
  d,    \* the attributes of the ShipDesViewWidget object
  ui,   \* the contents of its input widgets
  pc,   \* the position of on_calculate: "idle" or the step to run next
  loc,  \* the local variables of on_calculate and of _solve_volume_limit
  rr,   \* the local variables of on_run_range and the rows it has written
  obs   \* what the user has done, and what the runs of on_calculate have
        \* shown: where the last one returned, whether a call of _power in
        \* it reported a violation, and the inputs and the results of each

vars == << d, ui, pc, loc, rr, obs >>

\* the input widgets after __init__ has built them, before its final
\* _update_data_to_ui and _reset_dlg
BlankUi ==
  [edit_weight |-> 0, edit_error |-> 0, edit_teu |-> 0, edit_teu_weight |-> 0,
   edit_lbratio |-> 0, edit_bvalue |-> 0, edit_btratio |-> 0,
   edit_cbvalue |-> 0, edit_pdtratio |-> 0, edit_length |-> 0,
   edit_breadth |-> 0, edit_draught |-> 0, edit_depth |-> 0, edit_block |-> 0,
   edit_speed |-> 0, edit_range |-> 12000000, edit_prpm |-> 0, edit_erpm |-> 0,
   edit_density |-> 0, density_visible |-> FALSE, check_vol_limit |-> FALSE,
   check_econom |-> FALSE, radio |-> 0, check_lbratio |-> FALSE,
   check_bvalue |-> FALSE, check_btratio |-> FALSE, check_cbvalue |-> FALSE,
   check_pdtratio |-> FALSE, combo_ship |-> 1, combo_engine |-> 1,
   check_aux_enable |-> FALSE, edit_aux_base |-> 250000,
   combo_aux_mode |-> "None", edit_aux_p1 |-> 10000000,
   edit_aux_p2 |-> 3000000, check_als |-> FALSE, edit_als_eff |-> 5000000,
   check_wind |-> FALSE, edit_wind_sav |-> 10000000, check_append |-> FALSE,
   edit_interest |-> 0, edit_repay |-> 0, bad |-> {}]

InitUi == _reset_dlg(_update_data_to_ui(InitData, BlankUi))

InitLoc ==
  [W1 |-> 0, Z |-> 0, Y |-> 1, J |-> 0, L3 |-> 0, W2 |-> 0, k |-> 0,
   expanding |-> FALSE, i |-> 0, target_payload |-> 0, volume_ok |-> TRUE]

Init ==
  /\ d = InitData
  /\ ui = InitUi
  /\ pc = "idle"
  /\ loc = InitLoc
  /\ rr = [active |-> FALSE, param |-> "", values |-> << >>, i |-> 0,
           saved |-> InitUi, ignspd |-> FALSE, ignpth |-> FALSE, rows |-> << >>]
  /\ obs = [exit |-> "", viol |-> FALSE, hist |-> << >>, log |-> << >>]

\* ------------------------------------------------------------------------
\* on_calculate, one action per step
\* ------------------------------------------------------------------------

\* the user's commands: filling in the form as Requests[n] says, accepting
\* the dialog with Options[n], a click on Boxes[n], the Calculate button,
\* and the Run Range button with the range inputs Sweeps[n]
Input(n) == << "input", n >>
Modify(n) == << "modify", n >>
Toggle(n) == << "toggle", n >>
Calculate == << "calculate", 0 >>
Range(n) == << "range", n >>
Outopt(n) == << "outopt", n >>

\* the sessions of the user that are explored: each is a sequence of
\* commands, and the user may stop anywhere in it
Sessions ==
  { << Input(1), Calculate >>,
    << Input(1), Calculate, Input(9), Range(1) >>,
    << Input(1), Calculate, Input(15), Calculate >>,
    << Input(8), Calculate, Calculate, Calculate >>,
    << Input(16), Calculate, Calculate >>,
    << Input(1), Calculate, Input(18), Calculate, Calculate >>,
    << Input(2), Calculate, Input(20), Calculate >>,
    << Input(19), Calculate >>,
    << Modify(2), Input(25), Calculate >>,
    << Input(26), Calculate >>,
    << Input(27), Calculate >>,
    << Input(28), Calculate >>,
    << Input(29), Calculate >>,
    << Input(30), Calculate >>,
    << Input(31), Calculate >>,
    << Input(32), Calculate >>,
    << Input(33), Calculate >>,
    << Input(34), Calculate >>,
    << Input(35), Calculate >>,
    << Input(36), Calculate >>,
    << Input(1), Calculate, Input(37), Calculate >>,
    << Input(38), Calculate >>,
    << Input(39), Calculate >>,
    << Outopt(1), Input(1), Calculate >>,
    << Outopt(2), Input(1), Calculate >>,
    << Outopt(3), Input(1), Calculate >>,
    << Outopt(4), Input(1), Calculate >>,
    << Outopt(5), Input(1), Calculate >>,
    << Input(40), Calculate >>,
    << Input(41), Calculate >>,
    << Input(42), Calculate >>,
    << Input(43), Calculate >>,
    << Modify(4), Input(1), Calculate >>,
    << Modify(5), Input(1), Calculate >>,
    << Modify(6), Input(1), Calculate >>,
    << Input(1), Toggle(1), Toggle(2), Calculate >>,
    << Input(1), Toggle(2), Toggle(1), Toggle(1), Calculate >>,
    << Input(1), Toggle(1), Range(7), Calculate >>,
    << Input(1), Toggle(2), Range(6), Calculate >>,
    << Input(23), Calculate >>,
    << Input(24), Calculate, Calculate >>,
    << Input(21), Calculate >>,
    << Input(22), Calculate >>,
    << Input(3), Calculate >>,
    << Input(4), Calculate >>,
    << Modify(2), Input(4), Calculate >>,
    << Modify(3), Input(4), Calculate >>,
    << Input(5), Calculate >>,
    << Input(6), Calculate >>,
    << Input(7), Calculate >>,
    << Input(8), Calculate >>,
    << Input(9), Calculate >>,
    << Input(10), Calculate >>,
    << Modify(2), Input(10), Calculate >>,
    << Modify(3), Input(10), Calculate >>,
    << Input(11), Calculate >>,
    << Input(12), Calculate >>,
    << Modify(2), Input(12), Calculate >>,
    << Input(13), Calculate >>,
    << Modify(2), Input(13), Calculate >>,
    << Input(14), Calculate >>,
    << Input(15), Calculate >>,
    << Input(16), Calculate, Input(1), Calculate, Input(16), Calculate >>,
    << Input(17), Calculate >>,
    << Modify(1), Input(1), Range(1) >>,
    << Input(1), Range(2) >>,
    << Range(3) >>,
    << Range(4) >>,
    << Range(5) >> }

\* the user may give the command c next
Allowed(c) ==
  \E k \in Sessions :
    /\ Len(obs.hist) < Len(k)
    /\ SubSeq(k, 1, Len(obs.hist) + 1) = Append(obs.hist, c)

\* what the user has done once on_calculate has been entered: the sweep
\* calls it at "call", the Calculate button when nothing runs
Called == IF pc = "idle" THEN Append(obs.hist, Calculate) ELSE obs.hist

\* the runs of on_calculate once it has been entered: a new run begins
\* with what it is given, the widgets and the flags of the dialog
Entered ==
  IF pc \in {"idle", "call"}
  THEN Append(obs.log, [ui |-> ui, ignspd |-> d.ignspd, ignpth |-> d.ignpth,
                        dbgmd |-> d.dbgmd, result |-> << >>])
  ELSE obs.log

\* what a run that returns at where with the attributes s has to show
Result(s, where) ==
  << where, s.CalculatedOk, s.L1, s.B, s.D, s.T, s.C, s.M, s.M1, s.M2, s.M3,
     s.W1, s.W5, s.P1, s.P2 >>

\* on_calculate returns at the place named where, leaving the attributes s;
\* viol tells whether a call of _power in this run has reported a violation
Return(s, where, viol) ==
  /\ d' = s
  /\ pc' = IF rr.active THEN "row" ELSE "idle"
  /\ obs' = [exit |-> where, viol |-> viol, hist |-> Called,
             log |-> [Entered EXCEPT ![Len(Entered)].result = Result(s, where)]]

\* on_calculate goes on to the step at, leaving the attributes s
Goto(s, at, viol) ==
  /\ d' = s
  /\ pc' = at
  /\ obs' = [exit |-> "", viol |-> viol, hist |-> Called, log |-> Entered]

\* range(50) of _solve_volume_limit
MaxExpansions == 50

\* the stages that follow the length search, lines 1673-1729, in order
Program ==
  << "esd", "aux", "mass", "volume", "power_retry", "esd", "mass",
     "power_unchecked", "power", "esd", "aux", "mass", "esd", "mass", "mass",
     "finish" >>

\* Payload where the ship-dimensions mode takes the cargo deadweight W1 of
\* the solve before as its payload W
Payload_Carry(s0) ==
  LET W == IF s0.m_Cargo = 2 THEN Mul3(s0.m_TEU, s0.m_TEU_Avg_Weight)
           ELSE IF s0.m_Cargo = 0 THEN s0.m_Weight ELSE s0.W1
      E == IF s0.m_Cargo = 1 THEN s0.E ELSE Mul6(10 * W, s0.m_Error)
  IN  [s0 EXCEPT !.design_mode = s0.m_Cargo,
                 !.target_teu = IF s0.m_Cargo = 2 THEN s0.m_TEU ELSE 0,
                 !.W = W, !.E = E,
                 !.m_Cargo = IF @ = 2 THEN 0 ELSE @,
                 !.m_Prpm = IF s0.Ketype = 1 THEN s0.m_Erpm ELSE @]

\* lines 1476-1507: the payload W and its tolerance E for the inputs s0, and
\* the propeller RPM of a direct drive
Payload(s0) ==
  LET W == IF s0.m_Cargo = 2 THEN Mul3(s0.m_TEU, s0.m_TEU_Avg_Weight)
           ELSE IF s0.m_Cargo = 0 THEN s0.m_Weight ELSE s0.W
      E == IF s0.m_Cargo = 1 THEN s0.E ELSE Mul6(10 * W, s0.m_Error)
  IN  [s0 EXCEPT !.design_mode = s0.m_Cargo,
                 !.target_teu = IF s0.m_Cargo = 2 THEN s0.m_TEU ELSE 0,
                 !.W = W, !.E = E,
                 !.m_Cargo = IF @ = 2 THEN 0 ELSE @,
                 !.m_Prpm = IF s0.Ketype = 1 THEN s0.m_Erpm ELSE @]

\* what lines 1481-1507 write back into the edit fields
PayloadUi(s1, u) ==
  LET u1 == IF s1.design_mode = 2
            THEN [u EXCEPT !.edit_weight = s1.W, !.edit_error = s1.m_Error,
                           !.bad = @ \ {"edit_weight", "edit_error"}]
            ELSE u
  IN  IF s1.Ketype = 1
      THEN [u1 EXCEPT !.edit_prpm = s1.m_Erpm, !.bad = @ \ {"edit_prpm"}]
      ELSE u1

\* line 1521-1526: the first length of the search
FirstLength(s) ==
  LET k == IF s.Kstype < 3 THEN s.Kstype ELSE 3
  IN  Coef.L1n[k][1] + Mul6(Coef.L1n[k][2], Cbrt3(Div6(s.W, Coef.L1n[k][3])))

\* lines 1465-1536: the inputs are read and checked, the search is set up
on_calculate ==
  /\ pc = "call" \/ (pc = "idle" /\ Allowed(Calculate))
  /\ \E s0 \in {_update_ui_to_data([d EXCEPT !.has = {}], ui)} :
       IF ~s0.ret
       THEN /\ Return(s0, "parse", FALSE)
            /\ UNCHANGED << ui, loc >>
       ELSE \E s2 \in {[_initdata(Payload(s0), 0) EXCEPT !.CalculatedOk = FALSE]} :
              /\ ui' = PayloadUi(s2, ui)
              /\ IF ~_check_data(s2)
                 THEN /\ Return([s2 EXCEPT !.m_Cargo = s2.design_mode],
                                "check", FALSE)
                      /\ UNCHANGED loc
                 ELSE IF s2.m_Cargo = 0
                 THEN /\ Goto([s2 EXCEPT !.Kcount = 0, !.L1 = FirstLength(s2)],
                              "loop", FALSE)
                      /\ loc' = [InitLoc EXCEPT
                                   !.W1 = s2.W + 2 * (s2.E \div K3) + 10 * U3,
                                   !.J = 10 * U6]
                 ELSE /\ Goto(s2, "ship", FALSE)
                      /\ loc' = InitLoc
  /\ UNCHANGED rr

\* the user answers No to the question of debug mode at the end of one of
\* the first MaxDeclines passes, or never
MaxDeclines == 1

\* the test of the while loop at line 1538 without its limit on Kcount
Searching_NoCap == Abs(d.W - loc.W1) > d.E \div K3

\* the test of the while loop at line 1538
Searching == d.Kcount < 500 /\ Abs(d.W - loc.W1) > d.E \div K3

\* the next length of the search where a step is half the increment J
NextLength_HalfStep ==
  LET first == d.Kcount = 0
      bisect == ~first /\ loc.Y # loc.Z + 1
      step == ~first /\ ~bisect /\ d.W >= loc.W1
      dW == IF loc.W1 - loc.W2 = 0 THEN 1 ELSE loc.W1 - loc.W2
  IN  IF first THEN d.L1
      ELSE IF bisect \/ step THEN d.L1 + (IF step THEN 1 ELSE -1) * (loc.J \div 2)
      ELSE loc.L3 + MulDiv(d.W - loc.W2, d.L1 - loc.L3, dW)

\* lines 1539-1550: the next length of the search
NextLength ==
  LET first == d.Kcount = 0
      bisect == ~first /\ loc.Y # loc.Z + 1
      step == ~first /\ ~bisect /\ d.W >= loc.W1
      dW == IF loc.W1 - loc.W2 = 0 THEN 1 ELSE loc.W1 - loc.W2
  IN  IF first THEN d.L1
      ELSE IF bisect THEN d.L1 - loc.J \div 2
      ELSE IF step THEN d.L1 + loc.J
      ELSE loc.L3 + MulDiv(d.W - loc.W2, d.L1 - loc.L3, dW)

\* the locals of the search where an interpolation halves the increment J
NextLocals_Halve ==
  LET first == d.Kcount = 0
      bisect == ~first /\ loc.Y # loc.Z + 1
      step == ~first /\ ~bisect /\ d.W >= loc.W1
      secant == ~first /\ ~bisect /\ ~step
  IN  [loc EXCEPT !.Y = IF bisect \/ secant THEN @ + 1 ELSE @,
                  !.Z = IF secant THEN @ + 2 ELSE @,
                  !.J = IF secant THEN @ \div 2 ELSE @,
                  !.L3 = IF step THEN d.L1 ELSE @,
                  !.W2 = IF step THEN loc.W1 ELSE @]

\* what lines 1539-1550 do to the locals of the search
NextLocals ==
  LET first == d.Kcount = 0
      bisect == ~first /\ loc.Y # loc.Z + 1
      step == ~first /\ ~bisect /\ d.W >= loc.W1
      secant == ~first /\ ~bisect /\ ~step
  IN  [loc EXCEPT !.Y = IF bisect \/ secant THEN @ + 1 ELSE @,
                  !.Z = IF secant THEN @ + 2 ELSE @,
                  !.J = IF secant THEN @ \div 4 ELSE @,
                  !.L3 = IF step THEN d.L1 ELSE @,
                  !.W2 = IF step THEN loc.W1 ELSE @]

\* lines 1539-1614: the dimensions and the stability that a pass of the
\* length search hands to _power
LoopCall ==
  CHOOSE b \in {_stability(Dimensions(
                    [d EXCEPT !.Kcount = @ + 1,
                              !.L1 = IF L = 0 THEN 1 ELSE L])) :
                  L \in {NextLength}} : TRUE

\* lines 1539-1644: one pass of the length search; answer is the user's
\* reply to the question that debug mode asks at the end of the pass
Iterate(answer) ==
  /\ pc = "loop"
  /\ Searching
  /\ answer \/ d.Kcount < MaxDeclines
  /\ \E b \in {_power(LoopCall)} :
       IF ~b.ret
       THEN /\ Return(b, "loop_power", TRUE)
            /\ loc' = NextLocals
       ELSE \E c \in {_mass(b)} :
              /\ loc' = [NextLocals EXCEPT !.W1 = c.W1]
              /\ IF c.dbgmd /\ ((c.W1 <= 0 /\ c.Kcount >= 10) \/ ~answer)
                 THEN Goto([c EXCEPT !.dbgmd = FALSE],
                           IF c.W1 <= 0 /\ c.Kcount >= 10
                           THEN "loop" ELSE "endloop",
                           obs.viol \/ c.Kpwrerr # 1)
                 ELSE Goto(c, "loop", obs.viol \/ c.Kpwrerr # 1)
  /\ UNCHANGED << ui, rr >>

\* lines 1648-1661: the search has ended
EndLoop ==
  /\ pc = "endloop" \/ (pc = "loop" /\ ~Searching)
  /\ IF d.Kpwrerr # 1
     THEN /\ Return([d EXCEPT !.m_Cargo = d.design_mode], "after_loop", obs.viol)
          /\ UNCHANGED loc
     ELSE /\ Goto(d, "post", obs.viol)
          /\ loc' = [loc EXCEPT !.k = 1]
  /\ UNCHANGED << ui, rr >>

\* lines 1664-1666: the freeboard, the displacement and the stability that
\* the given dimensions hand to _power
ShipCall ==
  CHOOSE b \in {_stability([a EXCEPT !.M = Displacement(a)]) :
                  a \in {_freeboard(d)}} : TRUE

\* lines 1663-1668: the given dimensions are evaluated
ShipDimensions ==
  /\ pc = "ship"
  /\ \E b \in {_power(ShipCall)} :
       IF ~b.ret
       THEN /\ Return(b, "ship_power", TRUE)
            /\ UNCHANGED loc
       ELSE /\ Goto(_mass(b), "post", b.Kpwrerr # 1)
            /\ loc' = [loc EXCEPT !.k = 1]
  /\ UNCHANGED << ui, rr >>

\* the stage of Program that is to run
Stage(kind) == pc = "post" /\ Program[loc.k] = kind

\* the stage has left the attributes s and the next one follows
Advance(s, viol) ==
  /\ Goto(s, "post", viol)
  /\ loc' = [loc EXCEPT !.k = @ + 1, !.expanding = FALSE]

\* lines 1673, 1699, 1708, 1720
StageESD ==
  /\ Stage("esd")
  /\ Advance(_apply_resistance_breakdown(d, ui), obs.viol)
  /\ UNCHANGED << ui, rr >>

\* lines 1677, 1710
StageAux ==
  /\ Stage("aux")
  /\ Advance(_auxiliary(d, ui), obs.viol)
  /\ UNCHANGED << ui, rr >>

\* lines 1714-1717: the warning that follows the _mass of line 1712
AuxWarning(s) ==
  IF s.W1 <= 0 THEN [s EXCEPT !.m_Results = Append(@, Text.AuxCritical)]
  ELSE s

\* lines 1680, 1702, 1712-1717, 1722, 1723
StageMass ==
  /\ Stage("mass")
  /\ Advance(IF loc.k = 12 THEN AuxWarning(_mass(d)) ELSE _mass(d), obs.viol)
  /\ UNCHANGED << ui, rr >>

\* lines 1380-1387: _solve_volume_limit finds nothing to do for the
\* attributes s
Fits(s) == ~s.m_VolumeLimit \/ _get_volume_status(s)[3] <= U6

\* lines 1380-1454: _solve_volume_limit entered with the attributes s, up
\* to the end of the first pass of its loop
Again(s) == IF Fits(s) THEN s ELSE VolumeExpand(s, s.W)

\* lines 1683-1686 and 1375-1395: the design mode is restored and
\* _solve_volume_limit is entered
VolumeBegin ==
  /\ Stage("volume")
  /\ ~loc.expanding
  /\ LET s == [d EXCEPT !.m_Cargo = d.design_mode]
     IN  IF Fits(s)
         THEN Advance(s, obs.viol)
         ELSE /\ Goto(Say(s, Text.VolumeDetected), "post", obs.viol)
              /\ loc' = [loc EXCEPT !.expanding = TRUE, !.i = 0,
                                    !.target_payload = s.W]
  /\ UNCHANGED << ui, rr >>

\* lines 1397-1458: one pass of the expansion loop; the value that
\* _solve_volume_limit returns, volume_ok, is not looked at
VolumeStep ==
  /\ Stage("volume")
  /\ loc.expanding
  /\ \E s \in {VolumeExpand(d, loc.target_payload)} :
       IF s.ret \/ loc.i + 1 >= MaxExpansions
       THEN /\ Goto(Say(s, IF s.ret THEN Text.VolumeConverged
                              ELSE Text.VolumeLimitReached),
                    "post", obs.viol \/ s.Kpwrerr # 1)
            /\ loc' = [loc EXCEPT !.k = @ + 1, !.expanding = FALSE,
                                  !.volume_ok = s.ret]
       ELSE /\ Goto(s, "post", obs.viol \/ s.Kpwrerr # 1)
            /\ loc' = [loc EXCEPT !.i = @ + 1]
  /\ UNCHANGED << ui, rr >>

\* lines 1688-1696: a failed _power is tried again at nine tenths of the RPM
StagePowerRetry ==
  /\ Stage("power_retry")
  /\ \E a \in {_power(d)} :
       IF a.ret THEN Advance(a, obs.viol \/ a.Kpwrerr # 1)
       ELSE \E b \in {_power(Say([a EXCEPT !.N2 = Mul6(@, 900000),
                                            !.N1 = Mul6(@, 900000)],
                                  Text.RpmCorrecting))} :
              IF b.ret THEN Advance(b, TRUE)
              ELSE /\ Return(Say(b, Text.RpmFailed), "retry_power", TRUE)
                   /\ UNCHANGED loc
  /\ UNCHANGED << ui, rr >>

\* line 1704: the value that _power returns is not looked at
StagePowerUnchecked ==
  /\ Stage("power_unchecked")
  /\ \E a \in {_power(d)} : Advance(a, obs.viol \/ a.Kpwrerr # 1)
  /\ UNCHANGED << ui, rr >>

\* line 1706
StagePower ==
  /\ Stage("power")
  /\ \E a \in {_power(d)} :
       IF a.ret THEN Advance(a, obs.viol \/ a.Kpwrerr # 1)
       ELSE /\ Return(a, "power", TRUE)
            /\ UNCHANGED loc
  /\ UNCHANGED << ui, rr >>

\* lines 1733-1777: the warnings that are put in front of m_Results, or at
\* its end
Warnings(s) ==
  LET a == IF s.W1 <= 0 THEN [s EXCEPT !.m_Results = << Text.TooHeavy >> \o @]
           ELSE s
  IN  IF a.design_mode = 2 /\ _estimate_teu_capacity(a) < a.target_teu
      THEN [a EXCEPT !.m_Results = IF a.m_Append /\ a.Kcases > 0
                                   THEN Append(@, Text.VolumeLimited)
                                   ELSE << Text.VolumeLimited >> \o @]
      ELSE a

\* _outvdu, lines 3499 and 3805-3809: the lines of the case that are told
\* apart, for the selected options opt; the else of line 3806 belongs to the
\* test of line 3499
OutputLines(opt) ==
  IF "ope" \in opt \/ "oqpc" \in opt THEN << Text.Output >>
  ELSE << Text.NoOutput, Text.Output >>

\* _outvdu, lines 3425-3429 and 3811-3818: the case is counted, its output
\* is added to m_Results or takes its place, and the widget shows m_Results
_outvdu(s) ==
  LET Kcases == IF s.m_Append /\ s.Kcases > 0 THEN s.Kcases + 1 ELSE 1
      output_lines == OutputLines(s.outopt_data)
      m_Results == IF s.m_Append /\ Kcases > 1
                   THEN s.m_Results \o output_lines
                   ELSE output_lines
  IN  [s EXCEPT !.Kcases = Kcases, !.m_Results = m_Results,
                !.text_results = m_Results]

\* lines 1725-1786: the cost, the flag of success, the warnings, the output
\* and the write-back (line 1196 shows m_Results again)
Finish ==
  /\ Stage("finish")
  /\ \E b \in {_initdata(_outvdu(Warnings(
                  [(IF d.m_Econom THEN _cost(d) ELSE d)
                     EXCEPT !.CalculatedOk = TRUE])), 1)} :
       /\ Return(b, "end", obs.viol)
       /\ ui' = _reset_dlg(_update_data_to_ui(b, ui))
  /\ UNCHANGED << loc, rr >>

\* ------------------------------------------------------------------------
\* The user at the form
\* ------------------------------------------------------------------------

\* what the user may put into the form before pressing a button: each entry
\* names the widgets that differ from their contents after __init__
Requests ==
  << [edit_error |-> 100000],
     [edit_error |-> 100000, check_aux_enable |-> TRUE],
     [edit_error |-> 100000, edit_density |-> 500000],
     [edit_error |-> 100000, edit_density |-> 300000],
     [edit_error |-> 1],
     [edit_speed |-> 0],
     [edit_range |-> 0],
     [radio |-> 1],
     [bad |-> {"edit_erpm"}],
     [edit_error |-> 100000, edit_speed |-> 25000000],
     [edit_error |-> 100000, edit_speed |-> 5000000],
     [edit_error |-> 100000, edit_speed |-> 10000000],
     [radio |-> 1, edit_speed |-> 25000000],
     [edit_speed |-> -1000000],
     [edit_range |-> -1000],
     [radio |-> 1, edit_density |-> 300000],
     [edit_error |-> 100000, edit_density |-> 400000],
     [radio |-> 1, edit_density |-> 400000],
     [edit_error |-> 100000, combo_engine |-> 4],
     [edit_error |-> 100000, combo_engine |-> 4, check_aux_enable |-> TRUE],
     [edit_error |-> 100000, combo_engine |-> 4, check_aux_enable |-> TRUE,
      edit_range |-> 30000000],
     [edit_error |-> 100000, combo_engine |-> 4, check_aux_enable |-> TRUE,
      edit_density |-> 500000],
     [edit_error |-> 100000, combo_ship |-> 4, radio |-> 2,
      edit_teu |-> 2000000, edit_teu_weight |-> 7000],
     [edit_error |-> 100000, combo_ship |-> 4, radio |-> 2,
      edit_teu |-> 2000000, edit_teu_weight |-> 7000, check_append |-> TRUE],
     [edit_error |-> 100000, edit_weight |-> 3000000, edit_speed |-> 12000000,
      edit_density |-> 10000, combo_ship |-> 3, combo_engine |-> 2,
      edit_erpm |-> 60000000, edit_prpm |-> 80000000,
      check_lbratio |-> TRUE, edit_lbratio |-> 5000000,
      check_cbvalue |-> TRUE, edit_cbvalue |-> 600000],
     [edit_error |-> 100000, edit_weight |-> 5000000, edit_speed |-> 8000000,
      edit_density |-> 20000],
     [edit_error |-> 100000, edit_density |-> 430000],
     [radio |-> 1, edit_depth |-> 10000000],
     [edit_error |-> 100000, check_wind |-> TRUE],
     [edit_error |-> 100000, check_bvalue |-> TRUE, edit_bvalue |-> 36000000],
     [edit_error |-> 100000, combo_ship |-> 4, radio |-> 2,
      edit_teu |-> -2000000, edit_teu_weight |-> -7000],
     [edit_error |-> 100000, combo_ship |-> 4, radio |-> 2,
      edit_teu |-> 0, edit_teu_weight |-> 7000],
     [edit_error |-> 100000, check_bvalue |-> TRUE, edit_bvalue |-> 36000000,
      edit_density |-> 500000],
     [edit_error |-> 100000, check_btratio |-> TRUE, edit_btratio |-> 2700000,
      edit_density |-> 500000],
     [edit_error |-> 100000, check_btratio |-> TRUE, edit_btratio |-> 2700000],
     [edit_error |-> 100000, check_lbratio |-> TRUE, edit_lbratio |-> 6500000,
      edit_density |-> 500000],
     [radio |-> 1, edit_depth |-> 12000000, edit_density |-> 900000],
     [edit_error |-> 100000, edit_interest |-> 0],
     [edit_error |-> 100000, edit_interest |-> 5000000,
      edit_repay |-> 20000000],
     [radio |-> 1, edit_length |-> 400000000],
     [radio |-> 1, edit_length |-> 360000000],
     [radio |-> 1, edit_length |-> 20000000],
     [radio |-> 1, edit_length |-> 30000000, combo_ship |-> 2] >>

\* the form filled in as the request r says
Form(r) ==
  [f \in DOMAIN InitUi |-> IF f \in DOMAIN r THEN r[f] ELSE InitUi[f]]

\* the user fills in the form; the radio buttons, combo boxes and check
\* boxes call _reset_dlg when they change (lines 1010-1021)
UserInput(n) ==
  /\ pc = "idle"
  /\ Allowed(Input(n))
  /\ ui' = _reset_dlg(Form(Requests[n]))
  /\ obs' = [obs EXCEPT !.hist = Append(@, Input(n)), !.exit = ""]
  /\ UNCHANGED << d, pc, loc, rr >>

\* the user clicks on Boxes[n], which _reset_dlg enables outside the
\* ship-dimensions mode (lines 3146-3147)
on_check_toggled(n) ==
  /\ pc = "idle"
  /\ Allowed(Toggle(n))
  /\ ui.radio # 1
  /\ LET w == SetChecked([d |-> d, ui |-> ui], n, ~ui[Boxes[n]])
     IN  d' = w.d /\ ui' = w.ui
  /\ obs' = [obs EXCEPT !.hist = Append(@, Toggle(n)), !.exit = ""]
  /\ UNCHANGED << pc, loc, rr >>

\* what the user may choose in the dialog of on_dialog_modify
Options ==
  << [maxit |-> 1000, ignspd |-> FALSE, ignpth |-> FALSE, dbgmd |-> FALSE],
     [maxit |-> 1000, ignspd |-> TRUE, ignpth |-> TRUE, dbgmd |-> FALSE],
     [maxit |-> 1000, ignspd |-> FALSE, ignpth |-> FALSE, dbgmd |-> TRUE],
     [maxit |-> 3, ignspd |-> FALSE, ignpth |-> FALSE, dbgmd |-> FALSE],
     [maxit |-> 2, ignspd |-> FALSE, ignpth |-> FALSE, dbgmd |-> FALSE],
     [maxit |-> 4, ignspd |-> FALSE, ignpth |-> FALSE, dbgmd |-> FALSE] >>

\* on_dialog_modify, accepted with the coefficients as shown
on_dialog_modify(n) ==
  /\ pc = "idle"
  /\ Allowed(Modify(n))
  /\ d' = [d EXCEPT !.Kstype = ui.combo_ship,
                    !.maxit = Options[n].maxit,
                    !.ignspd = Options[n].ignspd,
                    !.ignpth = Options[n].ignpth,
                    !.dbgmd = Options[n].dbgmd]
  /\ obs' = [obs EXCEPT !.hist = Append(@, Modify(n)), !.exit = ""]
  /\ UNCHANGED << ui, pc, loc, rr >>

\* what the user may select in the dialog of on_dialog_outopt
Selections ==
  << {}, {"ocdw"}, (Ob1 \cup Ob2) \ {"ope", "oqpc"}, {"oqpc"}, {"orfr"} >>

\* on_dialog_outopt, accepted with the options Selections[n]
on_dialog_outopt(n) ==
  /\ pc = "idle"
  /\ Allowed(Outopt(n))
  /\ d' = [d EXCEPT !.outopt_data = Selections[n]]
  /\ obs' = [obs EXCEPT !.hist = Append(@, Outopt(n)), !.exit = ""]
  /\ UNCHANGED << ui, pc, loc, rr >>

\* ------------------------------------------------------------------------
\* on_run_range, one action per step
\* ------------------------------------------------------------------------

\* what the user may put into the range inputs and the file dialog
Sweeps ==
  << [param |-> "Speed(knts)", start |-> 10000000, end |-> 15000000,
      steps |-> 2, file |-> TRUE],
     [param |-> "Cargo deadweight(t)", start |-> 50000000, end |-> 40000000,
      steps |-> 2, file |-> TRUE],
     [param |-> "Speed(knts)", start |-> 14000000, end |-> 16000000,
      steps |-> 1, file |-> TRUE],
     [param |-> "Speed(knts)", start |-> 15000000, end |-> 15000000,
      steps |-> 3, file |-> TRUE],
     [param |-> "Speed(knts)", start |-> 14000000, end |-> 16000000,
      steps |-> 3, file |-> FALSE],
     [param |-> "L/B Ratio", start |-> 6000000, end |-> 6500000,
      steps |-> 2, file |-> TRUE],
     [param |-> "B(m)", start |-> 30000000, end |-> 32000000,
      steps |-> 2, file |-> TRUE] >>

\* np.linspace(start, end, steps)
Linspace(start, end, steps) ==
  [k \in 1..steps |-> start + ((k - 1) * (end - start)) \div (steps - 1)]

\* f"{x:.nf}" of the value x held in units of 1/scale, as a multiple of unit
Fixed(x, unit) == Sgn(x) * ((Abs(x) + unit \div 2) \div unit) * unit

\* lines 1843-1863 and 1958-1971: the widgets that on_run_range stores and
\* puts back
Stored ==
  {"edit_speed", "edit_weight", "edit_teu", "edit_lbratio", "edit_bvalue",
   "edit_btratio", "edit_cbvalue", "radio", "check_lbratio", "check_bvalue",
   "check_btratio", "check_cbvalue"}

\* lines 1796-1866: the range inputs are read and the flags are stored
on_run_range(n) ==
  /\ pc = "idle"
  /\ Allowed(Range(n))
  /\ IF Sweeps[n].steps < 2 \/ Sweeps[n].start = Sweeps[n].end
        \/ ~Sweeps[n].file
     THEN /\ obs' = [obs EXCEPT !.hist = Append(@, Range(n)),
                                 !.exit = "range"]
          /\ UNCHANGED << d, pc, rr >>
     ELSE /\ rr' = [active |-> TRUE, param |-> Sweeps[n].param,
                    values |-> Linspace(Sweeps[n].start, Sweeps[n].end,
                                        Sweeps[n].steps),
                    i |-> 0, saved |-> ui, ignspd |-> d.ignspd,
                    ignpth |-> d.ignpth, rows |-> << >>]
          /\ d' = [d EXCEPT !.ignspd = TRUE, !.ignpth = TRUE, !.Kcases = 0,
                            !.m_Results = << Text.RangeRunning >>,
                            !.text_results = << Text.RangeRunning >>]
          /\ pc' = "sample"
          /\ obs' = [obs EXCEPT !.hist = Append(@, Range(n)), !.exit = ""]
  /\ UNCHANGED << ui, loc >>

\* lines 1875-1911: the next value is put into its widget and on_calculate
\* is called
RunRange_Sample ==
  /\ pc = "sample"
  /\ rr.i < Len(rr.values)
  /\ LET value == rr.values[rr.i + 1]
         s == Say(d, Text.RangeStep)
         design == _reset_dlg([ui EXCEPT !.radio = IF rr.saved.radio = 1
                                                   THEN 0 ELSE @])
         w == IF rr.param = "Speed(knts)"
              THEN [d |-> s, ui |-> [ui EXCEPT !.edit_speed = value,
                                               !.bad = @ \ {"edit_speed"}]]
              ELSE IF rr.param = "Cargo deadweight(t)"
              THEN [d |-> s,
                    ui |-> _reset_dlg([ui EXCEPT !.radio = 0,
                                                 !.edit_weight = value,
                                                 !.bad = @ \ {"edit_weight"}])]
              ELSE IF rr.param = "L/B Ratio"
              THEN [SetChecked([d |-> s, ui |-> design], 1, TRUE)
                      EXCEPT !.ui.edit_lbratio = value,
                             !.ui.bad = @ \ {"edit_lbratio"}]
              ELSE [SetChecked([d |-> s, ui |-> design], 2, TRUE)
                      EXCEPT !.ui.edit_bvalue = value,
                             !.ui.bad = @ \ {"edit_bvalue"}]
     IN  d' = w.d /\ ui' = w.ui
  /\ pc' = "call"
  /\ UNCHANGED << loc, rr, obs >>

\* lines 1914-1935: the cells of a row that is not CALCULATION FAILED
Cells ==
  << Fixed(d.L1, 10000), Fixed(d.B, 10000), Fixed(d.D, 10000),
     Fixed(d.T, 10000), Fixed(d.C, 100), Fixed(d.M, K3), Fixed(d.W1, K3),
     Fixed(d.W5, K3), Fixed(Mul6(745700, d.P1), K3),
     Fixed(Mul6(745700, d.P2), K3) >>
  \o (IF rr.saved.check_econom
      THEN << d.S, IF rr.saved.radio = 2 THEN Mul3(d.Rf, d.m_TEU_Avg_Weight)
                   ELSE d.Rf >>
      ELSE << >>)

\* lines 1913-1937: on_calculate has returned and the row is written
RunRange_Row ==
  /\ pc = "row"
  /\ rr' = [rr EXCEPT
              !.i = @ + 1,
              !.rows = Append(@, [value |-> Fmt6g(rr.values[rr.i + 1]),
                                  failed |-> ~d.CalculatedOk,
                                  cells |-> IF d.CalculatedOk THEN Cells
                                            ELSE << >>])]
  /\ pc' = "sample"
  /\ UNCHANGED << d, ui, loc, obs >>

\* lines 1939-1974: the file is closed and the stored widgets and flags are
\* put back
RunRange_End ==
  /\ pc = "sample"
  /\ rr.i = Len(rr.values)
  /\ LET back == [f \in DOMAIN ui |->
                    IF f \in Stored \ {Boxes[1], Boxes[2]} THEN rr.saved[f]
                    ELSE IF f = "bad"
                    THEN (ui.bad \ Stored) \cup (rr.saved.bad \cap Stored)
                    ELSE ui[f]]
         w == SetChecked(SetChecked([d |-> d, ui |-> back], 1,
                                    rr.saved.check_lbratio),
                         2, rr.saved.check_bvalue)
     IN  /\ ui' = _reset_dlg(w.ui)
         /\ d' = [w.d EXCEPT !.ignspd = rr.ignspd, !.ignpth = rr.ignpth,
                              !.CalculatedOk = FALSE, !.Kcases = 0,
                              !.m_Results = << Text.Prompt >>,
                              !.text_results = << Text.Prompt >>]
  /\ rr' = [rr EXCEPT !.active = FALSE]
  /\ pc' = "idle"
  /\ obs' = [obs EXCEPT !.exit = "range_end"]
  /\ UNCHANGED loc

\* ------------------------------------------------------------------------
\* The program
\* ------------------------------------------------------------------------

Next ==
  \/ \E n \in 1..Len(Requests) : UserInput(n)
  \/ \E n \in 1..Len(Options) : on_dialog_modify(n)
  \/ \E n \in 1..Len(Boxes) : on_check_toggled(n)
  \/ \E n \in 1..Len(Selections) : on_dialog_outopt(n)
  \/ on_calculate
  \/ \E answer \in BOOLEAN : Iterate(answer)
  \/ EndLoop
  \/ ShipDimensions
  \/ StageESD
  \/ StageAux
  \/ StageMass
  \/ VolumeBegin
  \/ VolumeStep
  \/ StagePowerRetry
  \/ StagePowerUnchecked
  \/ StagePower
  \/ Finish
  \/ \E n \in 1..Len(Sweeps) : on_run_range(n)
  \/ RunRange_Sample
  \/ RunRange_Row
  \/ RunRange_End

Spec == Init /\ [][Next]_vars

\* ------------------------------------------------------------------------
\* Properties
\* ------------------------------------------------------------------------

\* a run of on_calculate has just returned from its last line
Ended == pc \in {"idle", "row"} /\ obs.exit = "end"

\* the flags of the dialog with which the run in hand was entered
Began == obs.log[Len(obs.log)]

\* C1: a solve in deadweight or TEU mode that ends with CalculatedOk = TRUE
\* and whose length search stopped before the cap of 500 passes leaves a
\* cargo deadweight W1 with |W - W1| <= E, after all the stages that follow
\* the search
C1_Tolerance ==
  (Ended /\ d.CalculatedOk /\ d.design_mode # 1 /\ d.Kcount < 500)
    => Abs(d.W - d.W1) <= d.E \div K3

\* the fuel W3 and the stores W4 of the last call of _mass
FuelMass ==
  (IF "calculated_fuel_mass" \in d.has THEN d.calculated_fuel_mass ELSE 0)
  + (IF "W_aux_fuel" \in d.has THEN d.W_aux_fuel ELSE 0)

StoresMass == 13 * Pow(d.M, 3, 350000, 3)

\* C2 as it stands: a solve that ends with CalculatedOk = TRUE leaves
\* M = M1 + M2 + M3 + fuel + stores + W1 to within a thousandth of M
C2_Original ==
  (Ended /\ d.CalculatedOk)
    => Abs(d.M - (d.M1 + d.M2 + d.M3 + FuelMass + StoresMass + d.W1))
         <= d.M \div K3

\* C2: a solve that ends with CalculatedOk = TRUE leaves
\* M = 1.02 * (M1 + M2 + M3) + fuel + stores + W1 to within a thousandth of
\* M, the lightship carrying a margin of two percent
C2_Margin ==
  (Ended /\ d.CalculatedOk)
    => Abs(d.M - (Mul6(d.M1 + d.M2 + d.M3, 1020000) + FuelMass + StoresMass
                  + d.W1))
         <= d.M \div K3

\* a solve with auxiliary loads has ended with CalculatedOk = TRUE and a
\* lightship, a fuel mass and a cargo deadweight that are not zero
C2_Witness ==
  /\ Ended /\ d.CalculatedOk
  /\ d.M1 + d.M2 + d.M3 > 0 /\ d.W1 > 0
  /\ "W_aux_fuel" \in d.has /\ d.W_aux_fuel > 0 /\ d.calculated_fuel_mass > 0

\* C3: with the flags ignspd, ignpth and dbgmd off, once a call of _power in
\* a solve has reported a violation no later stage of that solve runs and
\* the solve has ended with CalculatedOk = FALSE
C3_Abort ==
  (obs.viol /\ ~d.ignspd /\ ~d.ignpth /\ ~d.dbgmd /\ ~Began.dbgmd)
    => (pc \in {"idle", "call", "sample", "row"} /\ ~d.CalculatedOk)

\* C4: a solve whose length search stopped at the cap of 500 passes with
\* |W - W1| still above E does not end with CalculatedOk = TRUE
C4_Cap ==
  (Ended /\ d.design_mode # 1 /\ d.Kcount >= 500
     /\ Abs(d.W - loc.W1) > d.E \div K3)
    => ~d.CalculatedOk

\* a call of on_calculate has returned
Returned ==
  /\ pc \in {"idle", "row"}
  /\ obs.exit \in {"check", "loop_power", "after_loop", "ship_power",
                   "retry_power", "power", "end"}

\* the last call of on_calculate read a form whose fields all parsed, with a
\* speed or a range that is not positive
NotPositive ==
  /\ Len(obs.log) > 0
  /\ Began.ui.bad = {}
  /\ Began.ui.edit_speed <= 0 \/ Began.ui.edit_range <= 0

\* C5: a request with speed <= 0 or range <= 0 is turned down by
\* _check_data: neither the length search nor any stage of the solve is
\* entered for it, and it leaves CalculatedOk = FALSE
C5_Invalid ==
  NotPositive => (pc \notin {"loop", "endloop", "ship", "post"}
                  /\ ~d.CalculatedOk)

\* after a solve that ended with CalculatedOk = TRUE, a solve with a negative
\* range has returned from the check of the inputs
C5_Witness ==
  /\ pc = "idle" /\ obs.exit = "check"
  /\ NotPositive /\ Began.ui.edit_range < 0 /\ Began.ui.edit_speed > 0
  /\ Len(obs.log) > 1 /\ obs.log[1].result[2]
  /\ ~d.CalculatedOk

\* the step that is due calls _power
PowerDue ==
  \/ pc = "loop" /\ Searching
  \/ pc = "ship"
  \/ Stage("volume") /\ loc.expanding
  \/ Stage("power_retry") \/ Stage("power_unchecked") \/ Stage("power")

\* the attributes that the step hands to _power
PowerCall ==
  IF pc = "loop" THEN LoopCall
  ELSE IF pc = "ship" THEN ShipCall
  ELSE IF Stage("volume") THEN ExpandCall(d)
  ELSE d

\* C6 as it stands: a call of _power records SPEED_LOW exactly when
\* V0 < 0.35, SPEED_HIGH exactly when V0 > 0.90 and nothing between the two,
\* and the speed check ends the call exactly when V0 is out of range and
\* ignspd is off
C6_Original ==
  PowerDue =>
    \A c \in {PowerCall} : \A r \in {PowerSpeed(c)} :
      /\ r.Kpwrerr = SPEED_LOW <=> r.V0 < 350000
      /\ r.Kpwrerr = SPEED_HIGH <=> r.V0 > 900000
      /\ r.Kpwrerr = 1 <=> (350000 <= r.V0 /\ r.V0 <= 900000)
      /\ ~r.ret <=> ((r.V0 < 350000 \/ r.V0 > 900000) /\ ~c.ignspd)

\* C6: a call of _power records SPEED_LOW exactly when V0 < 0.35, SPEED_HIGH
\* exactly when V0 > 0.90 and nothing between the two, and the speed check
\* ends the call exactly when V0 is out of range and either the design mode
\* is ship dimensions or neither ignspd nor dbgmd is set
C6_Speed ==
  PowerDue =>
    \A c \in {PowerCall} : \A r \in {PowerSpeed(c)} :
      /\ r.Kpwrerr = SPEED_LOW <=> r.V0 < 350000
      /\ r.Kpwrerr = SPEED_HIGH <=> r.V0 > 900000
      /\ r.Kpwrerr = 1 <=> (350000 <= r.V0 /\ r.V0 <= 900000)
      /\ ~r.ret <=> /\ r.V0 < 350000 \/ r.V0 > 900000
                    /\ (~c.ignspd /\ ~c.dbgmd) \/ c.m_Cargo = 1

\* a pass of the length search has recorded a speed above the range with
\* ignspd set, and the search has gone on
C6_Witness ==
  /\ pc = "loop" /\ d.Kcount > 0
  /\ d.ignspd /\ d.m_Cargo = 0
  /\ d.V0 > 900000 /\ d.Kpwrerr % SPEED_HIGH = 0

\* C7: a call of _power that gets as far as the pitch ratio P5 records
\* PITCH_LOW exactly when P5 < 0.5 and PITCH_HIGH exactly when P5 > 1.4, and
\* the pitch check ends the call exactly when P5 is out of range and ignpth
\* is off
C7_Pitch ==
  PowerDue =>
    \A c \in {PowerCall} : \A r \in {_power(c)} :
      (PowerSpeed(c).ret /\ r.Kpwrerr # NOT_CONVERGE) =>
        /\ r.Kpwrerr % PITCH_LOW = 0 <=> r.P5 < 500000
        /\ r.Kpwrerr % PITCH_HIGH = 0 <=> r.P5 > 1400000
        /\ ~r.ret <=> ((r.P5 < 500000 \/ r.P5 > 1400000) /\ ~c.ignpth)

\* C8: with ignspd and ignpth set, a solve whose last call of _power has
\* recorded a violation does not end with CalculatedOk = TRUE
C8_Final ==
  (Returned /\ d.ignspd /\ d.ignpth /\ d.Kpwrerr # 1) => ~d.CalculatedOk

\* C9: in a range sweep the row of a sample whose call of on_calculate did
\* not reach its end is written as failed and without values
C9_Rows ==
  [][(pc = "row" /\ pc' = "sample" /\ obs.exit # "end")
       => LET row == rr'.rows[Len(rr'.rows)]
          IN  row.failed /\ row.cells = << >>]_vars

\* C10: two calls of on_calculate that read the same form, all of its fields
\* parsing, under the same flags return at the same place with the same
\* geometry, masses and powers, whatever was solved before them
C10_Inputs ==
  \A i, j \in 1..Len(obs.log) :
    (/\ obs.log[i].result # << >> /\ obs.log[j].result # << >>
     /\ obs.log[i].ui.bad = {}
     /\ obs.log[i].ui = obs.log[j].ui
     /\ obs.log[i].ignspd = obs.log[j].ignspd
     /\ obs.log[i].ignpth = obs.log[j].ignpth
     /\ obs.log[i].dbgmd = obs.log[j].dbgmd)
      => obs.log[i].result = obs.log[j].result

\* the widgets whose contents a solve in ship-dimensions mode takes as its
\* inputs: all but the four ratio fields, which _initdata derives from the
\* dimensions in that mode (lines 3389-3398)
ShipInputs ==
  DOMAIN InitUi \ {"edit_lbratio", "edit_bvalue", "edit_btratio", "edit_cbvalue"}

\* runs i and i + 1 of on_calculate are both in ship-dimensions mode, have
\* both returned, and read the same inputs under the same flags
SameShip(i) ==
  /\ obs.log[i].result # << >> /\ obs.log[i + 1].result # << >>
  /\ obs.log[i].ui.bad = {} /\ obs.log[i].ui.radio = 1
  /\ \A f \in ShipInputs : obs.log[i].ui[f] = obs.log[i + 1].ui[f]
  /\ obs.log[i].ignspd = obs.log[i + 1].ignspd
  /\ obs.log[i].ignpth = obs.log[i + 1].ignpth
  /\ obs.log[i].dbgmd = obs.log[i + 1].dbgmd

\* C11: two solves in ship-dimensions mode that run one after the other on
\* the same L, B, D, T, CB and the same other inputs return at the same
\* place with the same geometry, masses and powers
C11_Twice ==
  \A i \in 1..(Len(obs.log) - 1) :
    SameShip(i) => obs.log[i].result = obs.log[i + 1].result

\* the given dimensions have been solved twice in a row with success, the
\* first solve having rewritten a ratio field of the form
C11_Witness ==
  /\ pc = "idle" /\ Len(obs.log) = 2 /\ SameShip(1)
  /\ obs.log[1].ui # obs.log[2].ui
  /\ obs.log[1].result[1] = "end" /\ obs.log[2].result[1] = "end"
  /\ obs.log[2].result[2]

\* C12: every loop of a solve is bounded: the length search has made at most
\* 500 passes, the expansion loop is in one of its 50 passes, and the Newton
\* loop of the last _power has made at most maxit steps
C12_Bounded ==
  /\ d.Kcount <= 500
  /\ loc.i < MaxExpansions
  /\ d.m0 <= d.maxit

\* a length search that was stopped by its limit of 500 passes, in a solve
\* that has returned
C12_Witness ==
  /\ Returned
  /\ d.Kcount = 500
  /\ Abs(d.W - d.W1) > d.E \div K3

\* the stage that has just run was a _mass
Weighed ==
  pc = "post" /\ loc.k > 1 /\ Program[loc.k - 1] = "mass" /\ ~loc.expanding

\* C13: for the nuclear fuel type no fuel mass exists in any state, neither
\* the main fuel nor the generator fuel, and every _mass of the stages
\* leaves W1 = M - 1.02 * (M1 + M2 + M3) - stores, with no fuel taken off
C13_Nuclear ==
  FuelConfig[d.Ketype].IsNuclear
    => /\ FuelMass = 0
       /\ Weighed => d.W1 = d.M - Mul6(d.M1 + d.M2 + d.M3, 1020000) - StoresMass

\* a nuclear solve with auxiliary loads and a range of 30000 nm has ended
\* with CalculatedOk = TRUE, its generator load on the reactor
C13_Witness ==
  /\ Ended /\ d.CalculatedOk
  /\ FuelConfig[d.Ketype].IsNuclear
  /\ Began.ui.check_aux_enable /\ d.P_aux_total > 0
  /\ d.R = 30000000 /\ d.W1 > 0

\* the text m holds the line w
Holds(m, w) == \E k \in DOMAIN m : m[k] = w

\* C14: a TEU-mode solve that has ended with CalculatedOk = TRUE on a hull
\* whose estimated capacity is below the TEU asked for leaves the
\* volume-limited warning in m_Results
C14_Warned ==
  (/\ Ended /\ d.CalculatedOk /\ d.design_mode = 2
   /\ _estimate_teu_capacity(d) < d.target_teu)
    => Holds(d.m_Results, Text.VolumeLimited)

\* C15: a solve whose volume expansion stopped at its limit of 50 passes
\* with the cargo still not fitting, and which has gone on to its end, shows
\* the warning of the expansion limit in the text_results widget
C15_Limit ==
  (Ended /\ ~loc.volume_ok)
    => Holds(d.text_results, Text.VolumeLimitReached)

\* _solve_volume_limit has just returned True: the hull fitted, or a pass of
\* the expansion ended the loop
Fitted ==
  /\ pc = "post" /\ loc.k > 1 /\ Program[loc.k - 1] = "volume"
  /\ ~loc.expanding /\ loc.volume_ok

\* the dimensions, masses and powers of the ship
ShipValues ==
  {"L1", "B", "D", "T", "C", "M", "M1", "M2", "M3", "W1", "P1", "P2"}

\* C16: where _solve_volume_limit has returned True, a second call of it
\* right away leaves every dimension, mass and power as it is.
C16_Idempotent ==
  Fitted => \A f \in ShipValues : Again(d)[f] = d[f]

\* C17: a solve that ends with CalculatedOk = TRUE, in whatever design mode,
\* reports a draught T below the depth D.
C17_Draught == (Ended /\ d.CalculatedOk) => d.T < d.D

\* C18: a solve that ends with CalculatedOk = TRUE reports an installed
\* power P2 of 1.30 times the service power P1, whichever energy-saving and
\* auxiliary options are set.
C18_Installed == (Ended /\ d.CalculatedOk) => d.P2 = Mul6(d.P1, 1300000)

\* C19: whatever boxes the user has clicked and whatever sweeps have run and
\* put the boxes back, no run of on_calculate is entered with the boxes L/B
\* and B both checked, and the flags m_Lbratio and m_Bvalue are never both
\* set.
C19_Exclusive ==
  /\ \A i \in DOMAIN obs.log :
        ~(obs.log[i].ui.check_lbratio /\ obs.log[i].ui.check_bvalue)
  /\ ~(d.m_Lbratio /\ d.m_Bvalue)

\* the user has checked L/B and run a sweep of B, whose solves had the fixed
\* B alone; the sweep has put the boxes back and the solve that follows has
\* L/B alone
C19_Witness ==
  /\ Ended /\ d.CalculatedOk
  /\ obs.hist = << Input(1), Toggle(1), Range(7), Calculate >>
  /\ d.m_Lbratio /\ ~d.m_Bvalue
  /\ obs.log[1].ui.check_bvalue /\ ~obs.log[1].ui.check_lbratio

\* C20: NOT_CONVERGE is reported only where the residual A9 of the Newton
\* loop is still above 0.00001 when the loop has ended; a loop that has
\* reached the tolerance, on its step number maxit as well, is not reported.
C20_Converge == d.Kpwrerr = NOT_CONVERGE => Abs(d.A9) > 10

\* a pass of the length search, other than the first, is taken before any
\* secant interpolation: no two lengths around the target are known
Unbracketed ==
  /\ pc = "loop" /\ Searching /\ d.Kcount >= 1
  /\ loc.Z = 0
  /\ d'.Kcount = d.Kcount + 1

\* C21 as stated: before the target is bracketed every new length is the
\* one before plus J where the deadweight is below the target and the one
\* before minus J where it is above, the first trial included.
C21_Original ==
  [][Unbracketed /\ (d.W >= loc.W1 \/ loc.L3 = 0)
       => d'.L1 = d.L1 + (IF d.W >= loc.W1 THEN loc.J ELSE -loc.J)]_vars

\* C21: before the target is bracketed every new length is the one before
\* plus J where the deadweight is below the target; where the first trial
\* is above the target already, the new length is shorter, the
\* interpolation between the origin and the first trial.
C21_Step ==
  [][Unbracketed =>
       /\ d.W >= loc.W1 => d'.L1 = d.L1 + loc.J
       /\ (d.W < loc.W1 /\ loc.L3 = 0)
            => /\ d'.L1 < d.L1
               /\ d'.L1 = MulDiv(d.W, d.L1, loc.W1)]_vars

\* the second trial of a search is the first one plus J = 10 m, the first
\* one having given a deadweight below the target
C21_Witness ==
  /\ pc = "loop" /\ d.Kcount = 2 /\ loc.Z = 0
  /\ loc.W2 < d.W /\ d.L1 = loc.L3 + 10 * U6 /\ loc.L3 = FirstLength(d)

\* a pass of the length search finds a bracket: the length L3 gave a
\* deadweight W2 below the target, the length L1 one above it, and the pass
\* takes the interpolation between them
Bracketing ==
  /\ pc = "loop" /\ Searching /\ d.Kcount >= 1
  /\ loc.Y = loc.Z + 1 /\ d.W < loc.W1 /\ loc.L3 # 0
  /\ d'.Kcount = d.Kcount + 1

\* C22 as stated: a pass that finds a bracket halves the increment J.
C22_Original == [][Bracketing => loc'.J = loc.J \div 2]_vars

\* C22: a pass that finds a bracket takes the interpolation between the two
\* lengths and divides the increment J by four.
C22_Quarter ==
  [][Bracketing =>
       /\ loc'.J = loc.J \div 4
       /\ d'.L1 = loc.L3 + MulDiv(d.W - loc.W2, d.L1 - loc.L3,
                                  loc.W1 - loc.W2)]_vars

\* the first bracket of a search has been found: J has gone from 10 m to
\* 2.5 m and the length lies between the two of the bracket
C22_Witness ==
  /\ pc = "loop" /\ loc.Z = 2 /\ loc.Y = 2 /\ loc.L3 # 0
  /\ loc.J = 2500000 /\ loc.L3 < d.L1 /\ d.L1 < loc.L3 + 10 * U6

\* C23: a run in TEU mode whose TEU count or whose weight per TEU is not
\* positive does not get past _check_data: it is in none of the steps of
\* the solve and does not end with a result.
C23_Teu ==
  (/\ d.design_mode = 2
   /\ d.m_TEU <= 0 \/ d.m_TEU_Avg_Weight <= 0)
    => /\ pc \notin {"loop", "endloop", "ship", "post"}
       /\ ~(Ended /\ d.CalculatedOk)

\* C24: a solve in ship-dimensions mode that ends with CalculatedOk = TRUE
\* reports the length, breadth, depth, draught and block coefficient that
\* the form held when the solve was entered.
C24_Frame ==
  (Ended /\ d.CalculatedOk /\ d.design_mode = 1)
    => /\ d.L1 = Began.ui.edit_length /\ d.B = Began.ui.edit_breadth
       /\ d.D = Began.ui.edit_depth /\ d.T = Began.ui.edit_draught
       /\ d.C = Began.ui.edit_block

\* the solve in hand has entered the expansion loop of _solve_volume_limit,
\* which stores the payload at line 1394
Expanded == loc.target_payload # 0

\* a solve in deadweight or TEU mode has ended with CalculatedOk = TRUE
Designed == Ended /\ d.CalculatedOk /\ d.design_mode # 1

\* the constraints that the form held when the solve was entered, met by
\* the ship reported
KeepsLB == Began.ui.check_lbratio => d.B = Div6(d.L1, Began.ui.edit_lbratio)
KeepsB == Began.ui.check_bvalue => d.B = Began.ui.edit_bvalue
KeepsBT == Began.ui.check_btratio => d.T = Div6(d.B, Began.ui.edit_btratio)
KeepsCB == Began.ui.check_cbvalue => d.C = Began.ui.edit_cbvalue

\* C25 as stated: the ship reported meets every active constraint, also
\* where the expansion has enlarged the hull.
C25_Original == Designed => KeepsLB /\ KeepsB /\ KeepsBT /\ KeepsCB

\* C25: the ship reported meets a fixed L/B ratio and a fixed CB, also where
\* the expansion has enlarged the hull; it meets a fixed B and a fixed B/T
\* ratio where the expansion has not enlarged the hull.
C25_Held ==
  Designed => /\ KeepsLB /\ KeepsCB
              /\ ~Expanded => KeepsB /\ KeepsBT

\* an expansion has enlarged a hull of fixed L/B = 6.5, and the solve has
\* ended with that ratio
C25_Witness ==
  /\ Designed /\ Expanded /\ loc.volume_ok
  /\ Began.ui.check_lbratio /\ Began.ui.edit_lbratio = 6500000
  /\ d.B = Div6(d.L1, 6500000)

\* the displacement that the geometry of the ship gives, and the reported
\* displacement M within 1 t of it
Afloat == Abs(d.M - Displacement(d)) <= K3

\* C26: a solve that ends with CalculatedOk = TRUE reports a displacement M
\* that is 1.025 * L1 * B * T * CB of the reported geometry, also where the
\* expansion has derived the draught anew.
C26_Displacement == (Ended /\ d.CalculatedOk) => Afloat

\* the saving of the energy-saving devices in BHP, as the last call of
\* _apply_resistance_breakdown took it off the powers
Saving == Div6(d.p_savings_kw, 745700)

\* the powers of the last _power of the solve: the hull, the speed and the
\* RPM that _power reads are those of the end of the solve
Evaluated == _power(d)

\* C27: in the result of a solve that ends with CalculatedOk = TRUE the
\* saving of the energy-saving devices has been taken exactly once off the
\* service power P1 and off the installed power P2 of the last _power (the
\* load that _auxiliary adds to P2 of a nuclear ship is left aside).
C27_Once ==
  (Ended /\ d.CalculatedOk)
    => /\ d.P1 = Evaluated.P1 - Saving
       /\ ~(d.Ketype = 4 /\ Began.ui.check_aux_enable)
             => d.P2 = Evaluated.P2 - Saving

\* (1 + r)^n by n multiplications (U6)
RECURSIVE Compound(_, _)
Compound(r, n) == IF n = 0 THEN U6 ELSE Mul6(U6 + r, Compound(r, n - 1))

\* the capital-recovery amount on the build cost S at the rate r (U6) over n
\* years: S * r * (1+r)^n / ((1+r)^n - 1), and S / n where r = 0
Recovery(S, r, n) ==
  IF r = 0 THEN S \div n
  ELSE Mul6(Div6(Mul6(r, Compound(r, n)), Compound(r, n) - U6), S)

\* C28: a solve with the economic analysis that ends with CalculatedOk =
\* TRUE, for an interest rate I >= 0 and N >= 1 years, reports as annual
\* capital charge H1 the capital-recovery amount on the build cost S, which
\* is S / N where I = 0.
C28_Charge ==
  (Ended /\ d.CalculatedOk /\ d.m_Econom)
    => Abs(d.H1 - Recovery(d.S, Mul6(d.I, 10000), d.N)) <= 2

\* _freeboard has just run on the dimensions of the form (line 1664), and
\* the stability, the power and the mass that follow have left them alone
FreeboardGiven ==
  /\ d.design_mode = 1
  /\ \/ pc = "post" /\ loc.k = 1
     \/ pc = "idle" /\ obs.exit = "ship_power"

\* the freeboard table of the ship type, and the freeboard in mm (U3) on
\* the line through the table points l and l + 1 (0-based)
TableOf(s) == IF ShipConfig[s.Kstype].ID = 1 THEN _F1 ELSE _F2
EdgeLine(L1, tab, l) ==
  tab[l + 1] * U3
  + ((((L1 - _L2[l + 1] * U6) \div U3) * (tab[l + 2] - tab[l + 1]))
       \div (_L2[l + 2] - _L2[l + 1]))

\* the freeboard F5 is the one that the corrections make of the table
\* value fa, within 2e-6 m
FreeboardOf(fa) == Abs(d.F5 - FreeboardFrom(d, fa).F5) <= 2

\* C29 as stated: at or below 30 m the lookup uses the first table value
\* and at or above 360 m the last one.
C29_Original ==
  FreeboardGiven
    => /\ d.L1 <= _L2[1] * U6 => FreeboardOf(TableOf(d)[1] * U3)
       /\ d.L1 >= _L2[18] * U6 => FreeboardOf(TableOf(d)[18] * U3)

\* C29: below 30 m the lookup follows the line through the first two table
\* points and above 360 m the line through the last two, so that it takes
\* the first table value at 30 m and the last one at 360 m.
C29_Edge ==
  FreeboardGiven
    => /\ d.L1 <= _L2[1] * U6 => FreeboardOf(EdgeLine(d.L1, TableOf(d), 0))
       /\ d.L1 >= _L2[18] * U6 => FreeboardOf(EdgeLine(d.L1, TableOf(d), 16))
       /\ d.L1 = _L2[1] * U6 => FreeboardOf(TableOf(d)[1] * U3)
       /\ d.L1 = _L2[18] * U6 => FreeboardOf(TableOf(d)[18] * U3)

\* _freeboard has run on a ship of 400 m, 40 m beyond the table
C29_Witness ==
  /\ FreeboardGiven /\ d.L1 = 400 * U6
  /\ FreeboardOf(TableOf(d)[17] * U3 + 3 * (TableOf(d)[18] - TableOf(d)[17]) * U3)

\* C30: the report of a solve that has ended with CalculatedOk = TRUE holds
\* the line '--- No output is selected!' if and only if no output option is
\* selected.
C30_Selected ==
  (Ended /\ d.CalculatedOk /\ d.Kcases = 1)
    => (Holds(d.m_Results, Text.NoOutput) <=> d.outopt_data = {})

====
